---- MODULE Spec2Model ----
(***************************************************************************)
(* Relevance scoring and blending of services/rag_service.py (RAGService), *)
(* from the store query and the model call to the enriched items, and the  *)
(* detail lists of api/news_api.py built from them.  Further               *)
(* specifications follow the server around that analysis: the pipeline of  *)
(* services/pipeline_service.py, the latest-issues lookups, the crawl      *)
(* loops and the relevance filter of services/stable_crawling_proxy.py,    *)
(* the request validation of services/simulation_service.py and the        *)
(* background thread and manual trigger of main.py.                        *)
(*                                                                         *)
(* Numbers with one decimal (vector similarity, final_score, confidence)   *)
(* are carried in tenths: 80.0 is 800, 8.7 is 87.  AI scores are the       *)
(* integers the language model returns.                                    *)
(***************************************************************************)
EXTENDS Integers, Sequences, FiniteSets, TLC

\* ------------------------------------------------------------------ bounds
MaxVector == 2      \* longest vector-candidate list drawn
MaxAI == 2          \* longest AI-candidate list drawn
MaxItemVector == 1  \* the same, where a whole news item is analysed
MaxItemAI == 2
MaxDocs == 2        \* most pairs a store query returns (k)
MaxResponse == 1    \* longest candidates list of a model response
MaxIssues == 2      \* most news items one run analyses

\* ------------------------------------------------------- program constants
TopN == 3           \* final_candidates[:3]

\* ------------------------------------------------------------ value domains
Classes == {"industry", "past_issue"}

\* keys of self.industry_dict / self.issue_dict (the authoritative catalogs)
industry_dict == [n \in {"semiconductor", "chemical", "automobile", "bank"} |-> <<"catalog", n>>]
issue_dict == [n \in {"oil_shock", "fx_crisis", "rate_hike", "pandemic"} |-> <<"catalog", n>>]

Catalog(cls) == IF cls = "industry" THEN industry_dict ELSE issue_dict

\* a name the language model may nominate although no catalog holds it
UnknownName == "unlisted"

\* similarity percentages (tenths) the vector adapter hands over
Similarities == {800, 1000}

\* scores the language model returns: inside 1..10, and one outside
AIScores == {6, 9, 10, 11}

AIReason == "related"

SeqsUpTo(S, n) == UNION {[1..k -> S] : k \in 0..n}

\* One element of the list _vector_search_industries returns (for past
\* issues also "period").
VectorCandidate(cls, n, sim) ==
    IF cls = "industry"
    THEN [name |-> n, similarity |-> sim, description |-> <<"vector", n>>]
    ELSE [name |-> n, similarity |-> sim, description |-> <<"vector", n>>,
          period |-> "2020-01 ~ 2020-06"]

\* the catalog names the vector search comes back with
VectorFound(cls) ==
    IF cls = "industry" THEN {"semiconductor", "chemical", "automobile"}
    ELSE {"oil_shock", "fx_crisis", "rate_hike"}

\* the names the model nominates: one the vector search may find too, one it
\* does not, one no catalog holds
AINominated(cls) ==
    IF cls = "industry" THEN {"automobile", "bank", UnknownName}
    ELSE {"rate_hike", "pandemic", UnknownName}

VectorCandidateValues(cls) ==
    {VectorCandidate(cls, n, sim) : n \in VectorFound(cls), sim \in Similarities}

\* The adapter returns catalog names only, each once, nearest first.
VectorLists(cls) ==
    {v \in SeqsUpTo(VectorCandidateValues(cls), MaxVector) :
        /\ \A i, j \in DOMAIN v : i < j => v[i].name # v[j].name
        /\ \A i, j \in DOMAIN v : i < j => v[i].similarity >= v[j].similarity}

\* One element of the "candidates" list of the model's response.  shape says
\* which keys the dict carries: "ok" all three, "no_name" lacks the
\* "industry"/"issue" key, "no_score" lacks "score", "no_reason" lacks
\* "reason", "str_score" has a string under "score"; "not_dict" is an element
\* that is no dict (candidate["industry"] raises TypeError), and
\* "not_iterable" stands for a candidates value the for loop cannot iterate
\* (None, a number): the loop raises before its first pass.
AICandidateValues(cls) ==
    {[name |-> n, score |-> s, reason |-> AIReason, shape |-> "ok"] :
        n \in AINominated(cls), s \in AIScores}
    \cup {[name |-> UnknownName, score |-> 0, reason |-> AIReason, shape |-> "no_name"]}
    \cup {[name |-> n, score |-> 0, reason |-> AIReason, shape |-> sh] :
        n \in AINominated(cls) \cap VectorFound(cls), sh \in {"no_score", "str_score"}}

AILists(cls) == SeqsUpTo(AICandidateValues(cls), MaxAI)

\* The lists drawn for the analysis of a whole news item, where both entity
\* classes are analysed side by side: two names the vector search finds, one
\* of them and two others the model nominates.
ItemFound(cls) ==
    IF cls = "industry" THEN {"semiconductor", "chemical"} ELSE {"oil_shock", "fx_crisis"}

ItemNominated(cls) ==
    IF cls = "industry" THEN {"semiconductor", "automobile", UnknownName}
    ELSE {"oil_shock", "rate_hike", UnknownName}

ItemSimilarities == {350, 800}

ItemAIScores == {4, 8, 9}

ItemVectorLists(cls) ==
    {v \in SeqsUpTo({VectorCandidate(cls, n, sim) : n \in ItemFound(cls), sim \in ItemSimilarities},
                    MaxItemVector) :
        /\ \A i, j \in DOMAIN v : i < j => v[i].name # v[j].name
        /\ \A i, j \in DOMAIN v : i < j => v[i].similarity >= v[j].similarity}

ItemAILists(cls) ==
    SeqsUpTo({[name |-> n, score |-> s, reason |-> AIReason, shape |-> "ok"] :
                  n \in ItemNominated(cls), s \in ItemAIScores}
             \cup {[name |-> UnknownName, score |-> 0, reason |-> AIReason, shape |-> "no_name"]},
             MaxItemAI)

\* ------------------------------------------------------------ final score
\* round(x, 1) of the double vector_similarity / 10 * 0.3 + ai_score * 0.7 is
\* the nearest tenth of the exact sum, except where the exact sum lies
\* halfway between two tenths (vector_similarity 5.0, 15.0, ..., 95.0): there
\* the double arithmetic decides.  These are the halfway pairs
\* <<vector_similarity, ai_score>>, ai_score in 0..11, whose double lies above
\* the midpoint, so that round() goes up.
HalfwayRoundsUp ==
    {<<50, 8>>, <<50, 9>>, <<50, 10>>, <<150, 5>>, <<150, 9>>, <<150, 10>>,
     <<250, 0>>, <<250, 10>>, <<350, 0>>, <<350, 1>>, <<350, 2>>, <<350, 10>>,
     <<350, 11>>, <<450, 2>>, <<550, 5>>, <<550, 10>>, <<650, 4>>, <<650, 5>>,
     <<750, 1>>, <<750, 5>>, <<750, 9>>, <<850, 10>>, <<950, 0>>, <<950, 4>>,
     <<950, 7>>, <<950, 9>>}

\* faulty variant: the two weights exchanged
FinalScore_WeightsSwapped(vector_similarity, ai_score) ==
    LET exact == 7 * vector_similarity + 300 * ai_score
        q == exact \div 100
        r == exact % 100
    IN  IF r < 50 THEN q ELSE q + 1

\* faulty variant: the similarity percentage is not brought to the 0..10 scale
FinalScore_NotNormalized(vector_similarity, ai_score) ==
    LET exact == 30 * vector_similarity + 700 * ai_score
        q == exact \div 100
        r == exact % 100
    IN  IF r < 50 THEN q ELSE q + 1

\* candidate["final_score"] = round((normalized_vector * 0.3 + ai_score * 0.7), 1)
\* in tenths; exact is the sum in thousandths.
FinalScore(vector_similarity, ai_score) ==
    LET exact == 3 * vector_similarity + 700 * ai_score
        q == exact \div 100
        r == exact % 100
    IN  IF r < 50 THEN q
        ELSE IF r > 50 THEN q + 1
        ELSE IF <<vector_similarity, ai_score>> \in HalfwayRoundsUp THEN q + 1
        ELSE q

\* ---------------------------------------------------- all_candidates (dict)
\* A Python dict keeps insertion order: all_candidates is the sequence of its
\* values in that order, names unique.
\* faulty variant: the lookup by name never finds a key, as in a list of entries
Names_NeverFound(all_candidates) == {}

Names(all_candidates) == {all_candidates[i].name : i \in DOMAIN all_candidates}

IndexOf(all_candidates, name) ==
    CHOOSE i \in DOMAIN all_candidates : all_candidates[i].name = name

\* all_candidates[name] = entry: a new key goes last, an existing key keeps
\* its place.
Put(all_candidates, entry) ==
    IF entry.name \in Names(all_candidates)
    THEN [all_candidates EXCEPT ![IndexOf(all_candidates, entry.name)] = entry]
    ELSE Append(all_candidates, entry)

\* faulty variant: the sort is not stable; among entries of equal final_score the one
\* inserted later comes first
RECURSIVE InsertByScore_TiesReversed(_, _)
InsertByScore_TiesReversed(sorted, entry) ==
    IF sorted = <<>> THEN <<entry>>
    ELSE IF Head(sorted).final_score > entry.final_score
         THEN <<Head(sorted)>> \o InsertByScore_TiesReversed(Tail(sorted), entry)
         ELSE <<entry>> \o sorted

\* sorted(all_candidates.values(), key=final_score, reverse=True): stable, so
\* entries of equal final_score keep their order.
RECURSIVE InsertByScore(_, _)
InsertByScore(sorted, entry) ==
    IF sorted = <<>> THEN <<entry>>
    ELSE IF Head(sorted).final_score >= entry.final_score
         THEN <<Head(sorted)>> \o InsertByScore(Tail(sorted), entry)
         ELSE <<entry>> \o sorted

\* faulty variant: the entries stay in insertion order
SortByFinalScore_Unsorted(entries) == entries

RECURSIVE SortByFinalScore(_)
SortByFinalScore(entries) ==
    IF entries = <<>> THEN <<>>
    ELSE InsertByScore(SortByFinalScore(SubSeq(entries, 1, Len(entries) - 1)),
                       entries[Len(entries)])

\* What a call leaves behind: the list it returns, or an exception.
Returned(value) == [raised |-> FALSE, value |-> value]
Raised == [raised |-> TRUE, value |-> <<>>]

\* ------------------------------------------------ _combine_industry_results
\* The loop state of a combine call: all_candidates, the names whose ai_score
\* holds a string instead of a number, and whether an exception was raised.
LoopState(all_candidates, non_numeric, raised) ==
    [all_candidates |-> all_candidates, non_numeric |-> non_numeric, raised |-> raised]

\* for candidate in vector_candidates: all_candidates[name] = {...}
RECURSIVE SeedIndustry(_)
SeedIndustry(vector_candidates) ==
    IF vector_candidates = <<>> THEN <<>>
    ELSE LET n == Len(vector_candidates)
             candidate == vector_candidates[n]
         IN  Put(SeedIndustry(SubSeq(vector_candidates, 1, n - 1)),
                 [name |-> candidate.name,
                  vector_similarity |-> candidate.similarity,
                  ai_score |-> 0,
                  ai_reason |-> "",
                  description |-> candidate.description])

\* if name in all_candidates: the entry takes the nomination's score and
\* reason; candidate["score"] / candidate["reason"] raises KeyError when the
\* key is missing.
UpdateIndustryEntry(st, candidate) ==
    IF candidate.shape \in {"no_score", "no_reason"}
    THEN LoopState(st.all_candidates, st.non_numeric, TRUE)
    ELSE LET i == IndexOf(st.all_candidates, candidate.name)
         IN  LoopState(
                 [st.all_candidates EXCEPT ![i].ai_score = candidate.score,
                                           ![i].ai_reason = candidate.reason],
                 IF candidate.shape = "str_score"
                 THEN st.non_numeric \cup {candidate.name}
                 ELSE st.non_numeric \ {candidate.name},
                 FALSE)

\* faulty variant: a name the vector search did not find is never inserted
InsertIndustryEntry_Skip(st, candidate) == st

\* elif name in self.industry_dict: a new entry with vector_similarity 0 and the
\* catalog description.
InsertIndustryEntry(st, candidate) ==
    IF candidate.shape \in {"no_score", "no_reason"}
    THEN LoopState(st.all_candidates, st.non_numeric, TRUE)
    ELSE LoopState(
             Put(st.all_candidates,
                 [name |-> candidate.name,
                  vector_similarity |-> 0,
                  ai_score |-> candidate.score,
                  ai_reason |-> candidate.reason,
                  description |-> industry_dict[candidate.name]]),
             IF candidate.shape = "str_score"
             THEN st.non_numeric \cup {candidate.name}
             ELSE st.non_numeric,
             FALSE)

\* faulty variant: the catalog check of the elif branch is gone and the description
\* is looked up leniently, so every nominated name enters
MergeIndustryCandidate_NoCatalogCheck(st, candidate) ==
    IF st.raised THEN st
    ELSE IF candidate.shape \in {"not_iterable", "not_dict", "no_name"}
    THEN LoopState(st.all_candidates, st.non_numeric, TRUE)
    ELSE IF candidate.name \in Names(st.all_candidates)
    THEN UpdateIndustryEntry(st, candidate)
    ELSE IF candidate.shape \in {"no_score", "no_reason"}
    THEN LoopState(st.all_candidates, st.non_numeric, TRUE)
    ELSE LoopState(
             Put(st.all_candidates,
                 [name |-> candidate.name,
                  vector_similarity |-> 0,
                  ai_score |-> candidate.score,
                  ai_reason |-> candidate.reason,
                  description |-> <<"catalog", candidate.name>>]),
             IF candidate.shape = "str_score"
             THEN st.non_numeric \cup {candidate.name}
             ELSE st.non_numeric,
             FALSE)

\* One pass of "for candidate in ai_candidates"; candidate["industry"] raises
\* KeyError when the key is missing.
MergeIndustryCandidate(st, candidate) ==
    IF st.raised THEN st
    ELSE IF candidate.shape \in {"not_iterable", "not_dict", "no_name"}
    THEN LoopState(st.all_candidates, st.non_numeric, TRUE)
    ELSE IF candidate.name \in Names(st.all_candidates)
    THEN UpdateIndustryEntry(st, candidate)
    ELSE IF candidate.name \in DOMAIN industry_dict
    THEN InsertIndustryEntry(st, candidate)
    ELSE st

RECURSIVE MergeIndustry(_, _)
MergeIndustry(st, ai_candidates) ==
    IF ai_candidates = <<>> THEN st
    ELSE MergeIndustry(MergeIndustryCandidate(st, Head(ai_candidates)), Tail(ai_candidates))

\* for candidate in all_candidates.values(): candidate["final_score"] = ...
ScoreIndustry(all_candidates) ==
    [i \in DOMAIN all_candidates |->
        [name |-> all_candidates[i].name,
         vector_similarity |-> all_candidates[i].vector_similarity,
         ai_score |-> all_candidates[i].ai_score,
         ai_reason |-> all_candidates[i].ai_reason,
         description |-> all_candidates[i].description,
         final_score |-> FinalScore(all_candidates[i].vector_similarity,
                                    all_candidates[i].ai_score)]]

\* The whole of _combine_industry_results: the sorted list, or the exception
\* (KeyError of a missing key, TypeError of a string score times 0.7).
combine_industry_results(vector_candidates, ai_candidates) ==
    LET st == MergeIndustry(LoopState(SeedIndustry(vector_candidates), {}, FALSE),
                       ai_candidates)
    IN  IF st.raised \/ st.non_numeric # {} THEN Raised
        ELSE Returned(SortByFinalScore(ScoreIndustry(st.all_candidates)))

\* ---------------------------------------------- _combine_past_issue_results
\* for candidate in vector_candidates: all_candidates[name] = {...}
RECURSIVE SeedPastIssue(_)
SeedPastIssue(vector_candidates) ==
    IF vector_candidates = <<>> THEN <<>>
    ELSE LET n == Len(vector_candidates)
             candidate == vector_candidates[n]
         IN  Put(SeedPastIssue(SubSeq(vector_candidates, 1, n - 1)),
                 [name |-> candidate.name,
                  vector_similarity |-> candidate.similarity,
                  ai_score |-> 0,
                  ai_reason |-> "",
                  description |-> candidate.description,
                  period |-> candidate.period])

\* faulty variant: the nomination replaces the whole entry instead of updating two
\* of its fields
UpdatePastIssueEntry_Replace(st, candidate) ==
    IF candidate.shape \in {"no_score", "no_reason"}
    THEN LoopState(st.all_candidates, st.non_numeric, TRUE)
    ELSE LoopState(
             Put(st.all_candidates,
                 [name |-> candidate.name,
                  vector_similarity |-> 0,
                  ai_score |-> candidate.score,
                  ai_reason |-> candidate.reason,
                  description |-> issue_dict[candidate.name],
                  period |-> "N/A"]),
             IF candidate.shape = "str_score"
             THEN st.non_numeric \cup {candidate.name}
             ELSE st.non_numeric \ {candidate.name},
             FALSE)

\* if name in all_candidates: the entry takes the nomination's score and
\* reason; candidate["score"] / candidate["reason"] raises KeyError when the
\* key is missing.
UpdatePastIssueEntry(st, candidate) ==
    IF candidate.shape \in {"no_score", "no_reason"}
    THEN LoopState(st.all_candidates, st.non_numeric, TRUE)
    ELSE LET i == IndexOf(st.all_candidates, candidate.name)
         IN  LoopState(
                 [st.all_candidates EXCEPT ![i].ai_score = candidate.score,
                                           ![i].ai_reason = candidate.reason],
                 IF candidate.shape = "str_score"
                 THEN st.non_numeric \cup {candidate.name}
                 ELSE st.non_numeric \ {candidate.name},
                 FALSE)

\* elif name in self.issue_dict: a new entry with vector_similarity 0 and the
\* catalog description.
InsertPastIssueEntry(st, candidate) ==
    IF candidate.shape \in {"no_score", "no_reason"}
    THEN LoopState(st.all_candidates, st.non_numeric, TRUE)
    ELSE LoopState(
             Put(st.all_candidates,
                 [name |-> candidate.name,
                  vector_similarity |-> 0,
                  ai_score |-> candidate.score,
                  ai_reason |-> candidate.reason,
                  description |-> issue_dict[candidate.name],
                  period |-> "N/A"]),
             IF candidate.shape = "str_score"
             THEN st.non_numeric \cup {candidate.name}
             ELSE st.non_numeric,
             FALSE)

\* One pass of "for candidate in ai_candidates"; candidate["issue"] raises
\* KeyError when the key is missing.
MergePastIssueCandidate(st, candidate) ==
    IF st.raised THEN st
    ELSE IF candidate.shape \in {"not_iterable", "not_dict", "no_name"}
    THEN LoopState(st.all_candidates, st.non_numeric, TRUE)
    ELSE IF candidate.name \in Names(st.all_candidates)
    THEN UpdatePastIssueEntry(st, candidate)
    ELSE IF candidate.name \in DOMAIN issue_dict
    THEN InsertPastIssueEntry(st, candidate)
    ELSE st

RECURSIVE MergePastIssue(_, _)
MergePastIssue(st, ai_candidates) ==
    IF ai_candidates = <<>> THEN st
    ELSE MergePastIssue(MergePastIssueCandidate(st, Head(ai_candidates)), Tail(ai_candidates))

\* for candidate in all_candidates.values(): candidate["final_score"] = ...
ScorePastIssue(all_candidates) ==
    [i \in DOMAIN all_candidates |->
        [name |-> all_candidates[i].name,
         vector_similarity |-> all_candidates[i].vector_similarity,
         ai_score |-> all_candidates[i].ai_score,
         ai_reason |-> all_candidates[i].ai_reason,
         description |-> all_candidates[i].description,
         period |-> all_candidates[i].period,
         final_score |-> FinalScore(all_candidates[i].vector_similarity,
                                    all_candidates[i].ai_score)]]

\* The whole of _combine_past_issue_results.
combine_past_issue_results(vector_candidates, ai_candidates) ==
    LET st == MergePastIssue(LoopState(SeedPastIssue(vector_candidates), {}, FALSE),
                       ai_candidates)
    IN  IF st.raised \/ st.non_numeric # {} THEN Raised
        ELSE Returned(SortByFinalScore(ScorePastIssue(st.all_candidates)))

\* ------------------------------------------------------ _analyze_*_for_issue
\* final_candidates[:3]
Top(final_candidates) ==
    SubSeq(final_candidates, 1, IF Len(final_candidates) < TopN THEN Len(final_candidates) ELSE TopN)

\* Steps 3 and the return of _analyze_industry_for_issue, given what the two
\* source calls returned: the except branch turns any exception into [].
analyze_industry_for_issue(vector_candidates, ai_candidates) ==
    LET final_candidates == combine_industry_results(vector_candidates, ai_candidates)
    IN  IF final_candidates.raised THEN <<>> ELSE Top(final_candidates.value)

analyze_past_issues_for_issue(vector_candidates, ai_candidates) ==
    LET final_candidates == combine_past_issue_results(vector_candidates, ai_candidates)
    IN  IF final_candidates.raised THEN <<>> ELSE Top(final_candidates.value)

\* ------------------------------------------------------- _vector_search_*
\* One pair (doc, score) of similarity_search_with_score.  marker_lines are
\* the names on the lines of doc.page_content that hold the marker
\* (the KRX name marker / "Issue_name:"), in order, after replace() and strip();
\* detail is the text after the detail marker / "Contents:", <<>> when the content
\* has no such part; dates says whether a line holds Start_date: and
\* Fin_date:; score is the distance in 1/10000; a malformed pair is one whose
\* unpacking or page_content raises.
Doc(marker_lines, score, detail, dates) ==
    [marker_lines |-> marker_lines, score |-> score, detail |-> detail, dates |-> dates,
     malformed |-> FALSE]

MalformedDoc ==
    [marker_lines |-> <<>>, score |-> 0, detail |-> <<>>, dates |-> FALSE, malformed |-> TRUE]

\* the halfway distances 0.2005 .. 0.2495 whose double (1 - score) * 100 lies
\* above the midpoint, so that round(.., 1) goes up
ScoreHalfwayRoundsUp ==
    {2005, 2025, 2035, 2055, 2105, 2125, 2155, 2205, 2225, 2255, 2305, 2325,
     2345, 2365, 2385, 2405, 2425, 2445, 2465, 2485}

\* similarity_percentage = round((1 - score) * 100, 1), in tenths; exact is
\* the percentage in hundredths.
SimilarityPercentage(score) ==
    LET exact == 10000 - score
        q == exact \div 10
        r == exact % 10
    IN  IF r < 5 THEN q
        ELSE IF r > 5 THEN q + 1
        ELSE IF score \in ScoreHalfwayRoundsUp THEN q + 1
        ELSE q

\* The candidate one document yields: the detail part of the content, or the
\* catalog text when the content has none; for past issues also the period.
DocCandidate(cls, doc) ==
    LET name == Head(doc.marker_lines)
        description == IF doc.detail # <<>> THEN doc.detail ELSE Catalog(cls)[name]
    IN  IF cls = "industry"
        THEN [name |-> name, similarity |-> SimilarityPercentage(doc.score),
              description |-> description]
        ELSE [name |-> name, similarity |-> SimilarityPercentage(doc.score),
              description |-> description,
              period |-> IF doc.dates THEN "2020-01 ~ 2020-06" ELSE "N/A"]

\* faulty variant: a name seen before takes the similarity of the later document
AdaptDoc_LastWins(cls, st, doc) ==
    IF st.raised THEN st
    ELSE IF doc.malformed THEN Raised
    ELSE IF doc.marker_lines = <<>> THEN st
    ELSE IF Head(doc.marker_lines) \notin DOMAIN Catalog(cls) THEN st
    ELSE Returned(Put(st.value, DocCandidate(cls, doc)))

\* One pass of "for doc, score in results": the first marker line names the
\* entity (break); it is appended when the catalog holds it and no earlier
\* candidate carries the name.
AdaptDoc(cls, st, doc) ==
    IF st.raised THEN st
    ELSE IF doc.malformed THEN Raised
    ELSE IF doc.marker_lines = <<>> THEN st
    ELSE IF Head(doc.marker_lines) \notin DOMAIN Catalog(cls) THEN st
    ELSE IF Head(doc.marker_lines) \in Names(st.value) THEN st
    ELSE Returned(Append(st.value, DocCandidate(cls, doc)))

RECURSIVE AdaptDocs(_, _, _)
AdaptDocs(cls, st, docs) ==
    IF docs = <<>> THEN st
    ELSE AdaptDocs(cls, AdaptDoc(cls, st, Head(docs)), Tail(docs))

\* What the store query leaves behind: the retrieved pairs, or an exception.
\* The whole adapter: any exception, of the query or of the loop, gives [].
vector_search(cls, results) ==
    IF results.raised THEN <<>>
    ELSE LET st == AdaptDocs(cls, Returned(<<>>), results.value)
         IN  IF st.raised THEN <<>> ELSE st.value

vector_search_industries(results) == vector_search("industry", results)

vector_search_past_issues(results) == vector_search("past_issue", results)

\* ------------------------------------------------ _ai_extract_candidate_*
\* What chain.invoke leaves behind: kind "request_error" (the model request
\* raises), "parse_error" (JsonOutputParser raises), "not_dict" (the parsed
\* JSON is no object: result.get raises AttributeError), "no_candidates" (an
\* object without the "candidates" key) or "candidates" with the value under
\* that key.
Response(kind, value) == [kind |-> kind, value |-> value]

\* faulty variant: the except branch falls through and the call returns None
ai_extract_candidates_NoneOnError(cls, response) ==
    IF DOMAIN Catalog(cls) = {} THEN <<>>
    ELSE IF response.kind \in {"request_error", "parse_error", "not_dict"}
    THEN <<[name |-> UnknownName, score |-> 0, reason |-> "", shape |-> "not_iterable"]>>
    ELSE IF response.kind = "no_candidates" THEN <<>>
    ELSE response.value

\* The AI candidate source: [] without a catalog, [] on any exception inside
\* the try, else result.get("candidates", []) as it is.
ai_extract_candidates(cls, response) ==
    IF DOMAIN Catalog(cls) = {} THEN <<>>
    ELSE IF response.kind \in {"request_error", "parse_error", "not_dict"} THEN <<>>
    ELSE IF response.kind = "no_candidates" THEN <<>>
    ELSE response.value

ai_extract_candidate_industries(response) == ai_extract_candidates("industry", response)

ai_extract_candidate_past_issues(response) == ai_extract_candidates("past_issue", response)

\* ------------------------------------- news_api._enrich_with_rag_details
\* dict.get(key, default)
Get(dict, key, default) == IF key \in DOMAIN dict THEN dict[key] ELSE default

Unverified == [is_grounded |-> FALSE, supporting_quote |-> ""]

\* not entry.get("verification", {}).get("is_grounded", True)
PenaltyApplied(entry) ==
    IF "verification" \in DOMAIN entry
    THEN ~Get(entry.verification, "is_grounded", TRUE)
    ELSE FALSE

\* detailed_industry: the entry of the stored list read key by key, a default
\* standing in for every key the entry does not carry (weights in tenths).
DetailedIndustry(industry) ==
    [name |-> Get(industry, "name", "no name"),
     final_score |-> Get(industry, "final_score", 0),
     vector_score |-> Get(industry, "vector_score", 0),
     ai_score |-> Get(industry, "ai_score", 0),
     ai_reason |-> Get(industry, "ai_reason", ""),
     description |-> Get(industry, "description", <<>>),
     verification |-> Get(industry, "verification", Unverified),
     score_breakdown |-> [vector_weight |-> 3, ai_weight |-> 7,
                          penalty_applied |-> PenaltyApplied(industry)]]

\* detailed_past_issue: the same, with the period
DetailedPastIssue(past_issue) ==
    [name |-> Get(past_issue, "name", "no name"),
     final_score |-> Get(past_issue, "final_score", 0),
     vector_score |-> Get(past_issue, "vector_score", 0),
     ai_score |-> Get(past_issue, "ai_score", 0),
     ai_reason |-> Get(past_issue, "ai_reason", ""),
     description |-> Get(past_issue, "description", <<>>),
     period |-> Get(past_issue, "period", "N/A"),
     verification |-> Get(past_issue, "verification", Unverified),
     score_breakdown |-> [vector_weight |-> 3, ai_weight |-> 7,
                          penalty_applied |-> PenaltyApplied(past_issue)]]

\* the number of detailed entries whose verification is grounded
RECURSIVE VerifiedItems(_)
VerifiedItems(detailed) ==
    IF detailed = <<>> THEN 0
    ELSE (IF Head(detailed).verification.is_grounded THEN 1 ELSE 0) + VerifiedItems(Tail(detailed))

\* One pass of the loop of _enrich_with_rag_details over an issue as the
\* pipeline stores it: the copy of the issue with the two detailed lists and
\* the confidence detail (a numeric confidence feeds both scores).
EnrichIssue(issue) ==
    LET detailed_industries ==
            [i \in DOMAIN issue.related_industries |-> DetailedIndustry(issue.related_industries[i])]
        detailed_past_issues ==
            [i \in DOMAIN issue.related_past_issues |-> DetailedPastIssue(issue.related_past_issues[i])]
    IN  [related_industries_detail |-> detailed_industries,
         related_past_issues_detail |-> detailed_past_issues,
         rag_confidence_detail |->
             [consistency_score |-> issue.rag_confidence,
              peak_relevance_score |-> issue.rag_confidence,
              total_verified_items |-> VerifiedItems(detailed_industries)
                                       + VerifiedItems(detailed_past_issues)]]
        @@ issue

enrich_with_rag_details(issues) == [i \in DOMAIN issues |-> EnrichIssue(issues[i])]

\* the value of exposed before any enrichment
NotExposed ==
    [related_industries_detail |-> <<>>, related_past_issues_detail |-> <<>>]

\* ------------------------------------------------------------------- state
VARIABLES
    pc,                 \* where the modelled call stands
    vector_candidates,  \* what _vector_search_* returned to _analyze_*_for_issue
    ai_candidates,      \* what _ai_extract_candidate_* returned to it
    given,              \* the two lists as they were handed over
    final_candidates,   \* what _analyze_*_for_issue returned
    repeated,           \* what a second call on the same lists returned
    related_industries, \* analyze_issues_with_rag: the industries of the item
    related_past_issues, \* analyze_issues_with_rag: the past issues of the item
    rag_confidence,     \* analyze_issues_with_rag: the confidence of the item
    empty_sources,      \* per entity class: both source lists came back empty
    results,            \* what similarity_search_with_score left behind
    response,           \* what chain.invoke left behind
    completed,          \* the source calls of the running analysis that are over
    exposed,            \* the issue as _enrich_with_rag_details returns it
    filtered_issues,    \* analyze_issues_with_rag: the list it is called with
    enriched_issues,    \* analyze_issues_with_rag: the list it builds
    outcomes,           \* per analysed item, what its four source calls left behind
    pipeline,           \* execute_full_pipeline: the result it builds and what it did
    latest,             \* the latest-issues lookups: what the stores held, what came back
    crawler,            \* the crawl loops: attempts, waits, consecutive failures
    stock_filter,       \* _filter_by_stock_relevance: the issues, their scores, the pick
    simulation,         \* validate_simulation_inputs: the request and the verdict
    server,             \* main.py: the background thread, the executor, the triggers
    enrichment          \* _enrich_with_rag_details: its locals and what it returns

callVars == <<vector_candidates, ai_candidates, given, final_candidates, repeated>>
itemVars == <<related_industries, related_past_issues, rag_confidence, empty_sources>>
sourceVars == <<results, response, completed>>
apiVars == <<exposed>>
runVars == <<filtered_issues, enriched_issues, outcomes>>
sysVars == <<pipeline, latest, crawler, stock_filter, simulation, server, enrichment>>
vars == <<pc, callVars, itemVars, sourceVars, apiVars, runVars, sysVars>>

\* a part of the program whose code has not been entered
NotStarted == [state |-> "not_started"]

\* no part of the server other than the analysis has been entered
InitSys ==
    /\ pipeline = NotStarted
    /\ latest = NotStarted
    /\ crawler = NotStarted
    /\ stock_filter = NotStarted
    /\ simulation = NotStarted
    /\ server = NotStarted
    /\ enrichment = NotStarted

\* ------------------------------------- Spec: one _analyze_*_for_issue call
\* The results of the two source calls are the inputs; pc names the entity
\* class whose analysis runs.
Init ==
    /\ pc \in Classes
    /\ vector_candidates \in VectorLists(pc)
    /\ ai_candidates \in AILists(pc)
    /\ given = [vector |-> vector_candidates, ai |-> ai_candidates]
    /\ final_candidates = <<>>
    /\ repeated = <<>>
    /\ related_industries = <<>>
    /\ related_past_issues = <<>>
    /\ rag_confidence = 0
    /\ empty_sources = [cls \in Classes |-> FALSE]
    /\ results = Returned(<<>>)
    /\ response = Response("no_candidates", <<>>)
    /\ completed = {}
    /\ exposed = NotExposed
    /\ filtered_issues = <<>>
    /\ enriched_issues = <<>>
    /\ outcomes = <<>>
    /\ InitSys

\* faulty variant: the merge loop consumes the AI list it was given
AnalyzeIndustryForIssue_ConsumesList ==
    /\ pc = "industry"
    /\ final_candidates' = analyze_industry_for_issue(vector_candidates, ai_candidates)
    /\ ai_candidates' = <<>>
    /\ pc' = "industry_done"
    /\ UNCHANGED <<vector_candidates, given, repeated, itemVars, sourceVars, apiVars, runVars, sysVars>>

\* _analyze_industry_for_issue, from the merge on; the lists it was given are
\* read, never written.
AnalyzeIndustryForIssue ==
    /\ pc = "industry"
    /\ final_candidates' = analyze_industry_for_issue(vector_candidates, ai_candidates)
    /\ pc' = "industry_done"
    /\ UNCHANGED <<vector_candidates, ai_candidates, given, repeated, itemVars, sourceVars, apiVars, runVars, sysVars>>

AnalyzePastIssuesForIssue ==
    /\ pc = "past_issue"
    /\ final_candidates' = analyze_past_issues_for_issue(vector_candidates, ai_candidates)
    /\ pc' = "past_issue_done"
    /\ UNCHANGED <<vector_candidates, ai_candidates, given, repeated, itemVars, sourceVars, apiVars, runVars, sysVars>>

\* The same call once more, on the lists as the first call left them.
AnalyzeIndustryAgain ==
    /\ pc = "industry_done"
    /\ repeated' = analyze_industry_for_issue(vector_candidates, ai_candidates)
    /\ pc' = "industry_repeated"
    /\ UNCHANGED <<vector_candidates, ai_candidates, given, final_candidates, itemVars, sourceVars, apiVars, runVars, sysVars>>

AnalyzePastIssuesAgain ==
    /\ pc = "past_issue_done"
    /\ repeated' = analyze_past_issues_for_issue(vector_candidates, ai_candidates)
    /\ pc' = "past_issue_repeated"
    /\ UNCHANGED <<vector_candidates, ai_candidates, given, final_candidates, itemVars, sourceVars, apiVars, runVars, sysVars>>

Next ==
    \/ AnalyzeIndustryForIssue
    \/ AnalyzePastIssuesForIssue
    \/ AnalyzeIndustryAgain
    \/ AnalyzePastIssuesAgain

Spec == Init /\ [][Next]_vars

\* ------------------------------------------------ _calculate_rag_confidence
RECURSIVE SumFinalScore(_)
SumFinalScore(entries) ==
    IF entries = <<>> THEN 0 ELSE Head(entries).final_score + SumFinalScore(Tail(entries))

\* faulty variant: 0.0 only when both sets are empty; an empty set counts as mean 0
calculate_rag_confidence_BothEmpty(industries, past_issues) ==
    IF industries = <<>> /\ past_issues = <<>> THEN {0}
    ELSE LET n == IF industries = <<>> THEN 1 ELSE Len(industries)
             m == IF past_issues = <<>> THEN 1 ELSE Len(past_issues)
             num == m * SumFinalScore(industries) + n * SumFinalScore(past_issues)
             den == 2 * n * m
             q == num \div den
             r == num % den
         IN  IF 2 * r < den THEN {q}
             ELSE IF 2 * r > den THEN {q + 1}
             ELSE {q, q + 1}

\* faulty variant: the two sums are averaged without dividing by the list lengths
calculate_rag_confidence_SumsNotMeans(industries, past_issues) ==
    IF industries = <<>> \/ past_issues = <<>> THEN {0}
    ELSE LET num == SumFinalScore(industries) + SumFinalScore(past_issues)
         IN  IF num % 2 = 0 THEN {num \div 2} ELSE {num \div 2, num \div 2 + 1}

\* faulty variant: only the industries are tested for emptiness; an empty list of
\* past issues counts as mean 0
calculate_rag_confidence_OnlyIndustriesChecked(industries, past_issues) ==
    IF industries = <<>> THEN {0}
    ELSE LET n == Len(industries)
             m == IF past_issues = <<>> THEN 1 ELSE Len(past_issues)
             num == m * SumFinalScore(industries) + n * SumFinalScore(past_issues)
             den == 2 * n * m
             q == num \div den
             r == num % den
         IN  IF 2 * r < den THEN {q}
             ELSE IF 2 * r > den THEN {q + 1}
             ELSE {q, q + 1}

\* The values round((industry_avg + past_avg) / 2, 1) can take, in tenths.
\* The exact mean is num / den tenths; round() gives the nearest tenth.  Where
\* the exact mean lies halfway between two tenths the rounding errors of the
\* double sums and divisions decide (and sum() over floats differs between
\* interpreter versions), so either neighbour is possible.
calculate_rag_confidence(industries, past_issues) ==
    IF industries = <<>> \/ past_issues = <<>> THEN {0}
    ELSE LET n == Len(industries)
             m == Len(past_issues)
             num == m * SumFinalScore(industries) + n * SumFinalScore(past_issues)
             den == 2 * n * m
             q == num \div den
             r == num % den
         IN  IF 2 * r < den THEN {q}
             ELSE IF 2 * r > den THEN {q + 1}
             ELSE {q, q + 1}

\* ------------------------- SpecItem: one pass of the analyze_issues_with_rag loop
InitItem ==
    /\ pc = "item"
    /\ vector_candidates = <<>>
    /\ ai_candidates = <<>>
    /\ given = [vector |-> <<>>, ai |-> <<>>]
    /\ final_candidates = <<>>
    /\ repeated = <<>>
    /\ related_industries = <<>>
    /\ related_past_issues = <<>>
    /\ rag_confidence = 0
    /\ empty_sources = [cls \in Classes |-> FALSE]
    /\ results = Returned(<<>>)
    /\ response = Response("no_candidates", <<>>)
    /\ completed = {}
    /\ exposed = NotExposed
    /\ filtered_issues = <<>>
    /\ enriched_issues = <<>>
    /\ outcomes = <<>>
    /\ InitSys

\* related_industries = self._analyze_industry_for_issue(issue)
ItemAnalyzeIndustry ==
    /\ pc = "item"
    /\ \E v \in ItemVectorLists("industry"), a \in ItemAILists("industry") :
          /\ related_industries' = analyze_industry_for_issue(v, a)
          /\ empty_sources' = [empty_sources EXCEPT !["industry"] = (v = <<>> /\ a = <<>>)]
    /\ pc' = "item_industries"
    /\ UNCHANGED <<callVars, sourceVars, related_past_issues, rag_confidence, apiVars, runVars, sysVars>>

\* related_past_issues = self._analyze_past_issues_for_issue(issue)
ItemAnalyzePastIssues ==
    /\ pc = "item_industries"
    /\ \E v \in ItemVectorLists("past_issue"), a \in ItemAILists("past_issue") :
          /\ related_past_issues' = analyze_past_issues_for_issue(v, a)
          /\ empty_sources' = [empty_sources EXCEPT !["past_issue"] = (v = <<>> /\ a = <<>>)]
    /\ pc' = "item_past_issues"
    /\ UNCHANGED <<callVars, sourceVars, related_industries, rag_confidence, apiVars, runVars, sysVars>>

\* rag_confidence = self._calculate_rag_confidence(related_industries, related_past_issues)
ItemConfidence ==
    /\ pc = "item_past_issues"
    /\ rag_confidence' \in calculate_rag_confidence(related_industries, related_past_issues)
    /\ pc' = "item_enriched"
    /\ UNCHANGED <<callVars, sourceVars, related_industries, related_past_issues, empty_sources, apiVars, runVars, sysVars>>

\* GET /latest on the stored item: _enrich_with_rag_details over the list that
\* holds it
ItemEnrichWithRagDetails ==
    /\ pc = "item_enriched"
    /\ exposed' = enrich_with_rag_details(
                       <<[related_industries |-> related_industries,
                          related_past_issues |-> related_past_issues,
                          rag_confidence |-> rag_confidence]>>)[1]
    /\ pc' = "item_exposed"
    /\ UNCHANGED <<callVars, itemVars, sourceVars, runVars, sysVars>>

NextItem ==
    \/ ItemAnalyzeIndustry
    \/ ItemAnalyzePastIssues
    \/ ItemConfidence
    \/ ItemEnrichWithRagDetails

SpecItem == InitItem /\ [][NextItem]_vars

\* ------------------ SpecSources: _analyze_*_for_issue, statement by statement
\* the two catalog names the retrieved documents carry; the model nominates
\* the first of them too
DocListed(cls) ==
    IF cls = "industry" THEN <<"automobile", "semiconductor">> ELSE <<"rate_hike", "oil_shock">>

DocDetail == <<"vector", "payload">>

\* the pairs a store query may hold: the same name at two distances, a name
\* without detail part, two distances that round to the same and to a halfway
\* percentage, an unlisted name, an unlisted name on the first marker line
\* before a listed one, a content without marker, a malformed pair
DocValues(cls) ==
    {Doc(<<DocListed(cls)[1]>>, 2000, DocDetail, TRUE),
     Doc(<<DocListed(cls)[1]>>, 6500, <<>>, FALSE),
     Doc(<<DocListed(cls)[2]>>, 2004, DocDetail, TRUE),
     Doc(<<DocListed(cls)[2]>>, 2345, DocDetail, FALSE),
     Doc(<<UnknownName>>, 0, DocDetail, TRUE),
     Doc(<<UnknownName, DocListed(cls)[1]>>, 0, DocDetail, TRUE),
     Doc(<<>>, 0, DocDetail, FALSE),
     MalformedDoc}

StoreOutcomes(cls) ==
    {Raised} \cup {Returned(docs) : docs \in SeqsUpTo(DocValues(cls), MaxDocs)}

\* a catalog name the documents do not carry
NominatedOnly(cls) == IF cls = "industry" THEN "bank" ELSE "pandemic"

Entry(name, score, shape) == [name |-> name, score |-> score, reason |-> AIReason, shape |-> shape]

\* the entries a candidates list may hold: well-formed ones for a name the
\* documents carry, for one they do not and for an unlisted one, and the
\* malformed ones
ResponseEntries(cls) ==
    {Entry(DocListed(cls)[1], 9, "ok"),
     Entry(NominatedOnly(cls), 6, "ok"),
     Entry(UnknownName, 9, "ok"),
     Entry(UnknownName, 0, "no_name"),
     Entry(UnknownName, 0, "not_dict"),
     Entry(DocListed(cls)[1], 0, "no_score"),
     Entry(NominatedOnly(cls), 9, "no_reason"),
     Entry(DocListed(cls)[1], 0, "str_score"),
     Entry(UnknownName, 0, "no_score")}

\* a candidates value that is no list: None or a number
NotIterable == <<Entry(UnknownName, 0, "not_iterable")>>

ModelOutcomes(cls) ==
    {Response(kind, <<>>) : kind \in {"request_error", "parse_error", "not_dict", "no_candidates"}}
    \cup {Response("candidates", value) : value \in SeqsUpTo(ResponseEntries(cls), MaxResponse)}
    \cup {Response("candidates", NotIterable)}

InitSources ==
    /\ pc \in {"industry_step1", "past_issue_step1"}
    /\ vector_candidates = <<>>
    /\ ai_candidates = <<>>
    /\ given = [vector |-> <<>>, ai |-> <<>>]
    /\ final_candidates = <<>>
    /\ repeated = <<>>
    /\ related_industries = <<>>
    /\ related_past_issues = <<>>
    /\ rag_confidence = 0
    /\ empty_sources = [cls \in Classes |-> FALSE]
    /\ results = Returned(<<>>)
    /\ response = Response("no_candidates", <<>>)
    /\ completed = {}
    /\ exposed = NotExposed
    /\ filtered_issues = <<>>
    /\ enriched_issues = <<>>
    /\ outcomes = <<>>
    /\ InitSys

\* faulty variant: an exception of the store query leaves the adapter and ends the
\* analysis in the except branch of _analyze_industry_for_issue
IndustryVectorSearch_RaiseEscapes ==
    /\ pc = "industry_step1"
    /\ \E outcome \in StoreOutcomes("industry") :
          /\ results' = outcome
          /\ vector_candidates' = vector_search_industries(outcome)
          /\ pc' = IF outcome.raised THEN "industry_return" ELSE "industry_step2"
    /\ completed' = completed \cup {"vector"}
    /\ UNCHANGED <<ai_candidates, given, final_candidates, repeated, itemVars, response, apiVars, runVars, sysVars>>

\* Step 1: vector_candidates = self._vector_search_industries(query)
IndustryVectorSearch ==
    /\ pc = "industry_step1"
    /\ \E outcome \in StoreOutcomes("industry") :
          /\ results' = outcome
          /\ vector_candidates' = vector_search_industries(outcome)
    /\ completed' = completed \cup {"vector"}
    /\ pc' = "industry_step2"
    /\ UNCHANGED <<ai_candidates, given, final_candidates, repeated, itemVars, response, apiVars, runVars, sysVars>>

\* Step 2: ai_candidates = self._ai_extract_candidate_industries(query)
IndustryAIExtract ==
    /\ pc = "industry_step2"
    /\ \E outcome \in ModelOutcomes("industry") :
          /\ response' = outcome
          /\ ai_candidates' = ai_extract_candidate_industries(outcome)
    /\ completed' = completed \cup {"ai"}
    /\ pc' = "industry_step3"
    /\ UNCHANGED <<vector_candidates, given, final_candidates, repeated, itemVars, results, apiVars, runVars, sysVars>>

\* Step 3 and the return: the merge, the cut to three, [] on an exception
IndustryCombine ==
    /\ pc = "industry_step3"
    /\ final_candidates' = analyze_industry_for_issue(vector_candidates, ai_candidates)
    /\ pc' = "industry_return"
    /\ UNCHANGED <<vector_candidates, ai_candidates, given, repeated, itemVars, sourceVars, apiVars, runVars, sysVars>>

\* Step 1: vector_candidates = self._vector_search_past_issues(query)
PastIssueVectorSearch ==
    /\ pc = "past_issue_step1"
    /\ \E outcome \in StoreOutcomes("past_issue") :
          /\ results' = outcome
          /\ vector_candidates' = vector_search_past_issues(outcome)
    /\ completed' = completed \cup {"vector"}
    /\ pc' = "past_issue_step2"
    /\ UNCHANGED <<ai_candidates, given, final_candidates, repeated, itemVars, response, apiVars, runVars, sysVars>>

\* faulty variant: the merge is entered right after the vector search, before the
\* model has been asked
PastIssueAIExtract_Skipped ==
    /\ pc = "past_issue_step2"
    /\ pc' = "past_issue_step3"
    /\ UNCHANGED <<callVars, itemVars, sourceVars, apiVars, runVars, sysVars>>

\* Step 2: ai_candidates = self._ai_extract_candidate_past_issues(query)
PastIssueAIExtract ==
    /\ pc = "past_issue_step2"
    /\ \E outcome \in ModelOutcomes("past_issue") :
          /\ response' = outcome
          /\ ai_candidates' = ai_extract_candidate_past_issues(outcome)
    /\ completed' = completed \cup {"ai"}
    /\ pc' = "past_issue_step3"
    /\ UNCHANGED <<vector_candidates, given, final_candidates, repeated, itemVars, results, apiVars, runVars, sysVars>>

\* Step 3 and the return
PastIssueCombine ==
    /\ pc = "past_issue_step3"
    /\ final_candidates' = analyze_past_issues_for_issue(vector_candidates, ai_candidates)
    /\ pc' = "past_issue_return"
    /\ UNCHANGED <<vector_candidates, ai_candidates, given, repeated, itemVars, sourceVars, apiVars, runVars, sysVars>>

NextSources ==
    \/ IndustryVectorSearch
    \/ IndustryAIExtract
    \/ IndustryCombine
    \/ PastIssueVectorSearch
    \/ PastIssueAIExtract
    \/ PastIssueCombine

SpecSources == InitSources /\ [][NextSources]_vars

\* --------------------------------- SpecRun: analyze_issues_with_rag, a run
\* A filtered news item as the crawler hands it over.
Issue(k) ==
    [issue_number |-> k, category |-> "economy", title |-> <<"title", k>>,
     content |-> <<"content", k>>, unique_id |-> <<"economy", k>>]

IssueLists == {[i \in 1..n |-> Issue(i)] : n \in 1..MaxIssues}

\* the keys analyze_issues_with_rag adds to an item
OutputKeys == {"related_industries", "related_past_issues", "rag_confidence"}

\* the store query of a run: it raises, it returns a pair that names a catalog
\* entity, or it returns a malformed pair
RunStoreOutcomes(cls) ==
    {Raised,
     Returned(<<Doc(<<DocListed(cls)[1]>>, 2000, DocDetail, TRUE)>>),
     Returned(<<MalformedDoc>>)}

\* the model call of a run: the request raises, the response nominates the
\* same entity with score 8, or it holds an entry without the name key
RunModelOutcomes(cls) ==
    {Response("request_error", <<>>),
     Response("candidates", <<Entry(DocListed(cls)[1], 8, "ok")>>),
     Response("candidates", <<Entry(UnknownName, 0, "no_name")>>)}

Outcome(industry_results, industry_response, past_issue_results, past_issue_response) ==
    [industry_results |-> industry_results, industry_response |-> industry_response,
     past_issue_results |-> past_issue_results, past_issue_response |-> past_issue_response]

\* related_industries / related_past_issues of an item whose source calls
\* left outcome behind
RelatedIndustries(outcome) ==
    analyze_industry_for_issue(vector_search_industries(outcome.industry_results),
                               ai_extract_candidate_industries(outcome.industry_response))

RelatedPastIssues(outcome) ==
    analyze_past_issues_for_issue(vector_search_past_issues(outcome.past_issue_results),
                                  ai_extract_candidate_past_issues(outcome.past_issue_response))

\* enriched_issue = issue.copy(); enriched_issue.update({...})
EnrichedIssue(issue, related, past, confidence) ==
    [related_industries |-> related, related_past_issues |-> past, rag_confidence |-> confidence]
        @@ issue

InitRun ==
    /\ pc = "run_loop"
    /\ filtered_issues \in IssueLists
    /\ given = filtered_issues
    /\ enriched_issues = <<>>
    /\ outcomes = <<>>
    /\ vector_candidates = <<>>
    /\ ai_candidates = <<>>
    /\ final_candidates = <<>>
    /\ repeated = <<>>
    /\ related_industries = <<>>
    /\ related_past_issues = <<>>
    /\ rag_confidence = 0
    /\ empty_sources = [cls \in Classes |-> FALSE]
    /\ results = Returned(<<>>)
    /\ response = Response("no_candidates", <<>>)
    /\ completed = {}
    /\ exposed = NotExposed
    /\ InitSys

\* faulty variant: an exception of a store query or of a model request is not
\* absorbed and ends the run
AnalyzeIssue_RaisePropagates ==
    /\ pc = "run_loop"
    /\ Len(enriched_issues) < Len(filtered_issues)
    /\ \E iv \in RunStoreOutcomes("industry"), ir \in RunModelOutcomes("industry"),
          pv \in RunStoreOutcomes("past_issue"), pr \in RunModelOutcomes("past_issue") :
          LET outcome == Outcome(iv, ir, pv, pr)
              issue == filtered_issues[Len(enriched_issues) + 1]
          IN  IF iv.raised \/ pv.raised \/ ir.kind = "request_error" \/ pr.kind = "request_error"
              THEN /\ pc' = "run_raised"
                   /\ UNCHANGED <<enriched_issues, outcomes>>
              ELSE /\ \E confidence \in calculate_rag_confidence(RelatedIndustries(outcome),
                                                                 RelatedPastIssues(outcome)) :
                          enriched_issues' =
                              Append(enriched_issues,
                                     EnrichedIssue(issue, RelatedIndustries(outcome),
                                                   RelatedPastIssues(outcome), confidence))
                   /\ outcomes' = Append(outcomes, outcome)
                   /\ pc' = pc
    /\ UNCHANGED <<filtered_issues, callVars, itemVars, sourceVars, apiVars, sysVars>>

\* faulty variant: the three outputs are written into the input item itself
AnalyzeIssue_UpdatesInPlace ==
    /\ pc = "run_loop"
    /\ Len(enriched_issues) < Len(filtered_issues)
    /\ \E iv \in RunStoreOutcomes("industry"), ir \in RunModelOutcomes("industry"),
          pv \in RunStoreOutcomes("past_issue"), pr \in RunModelOutcomes("past_issue") :
          LET outcome == Outcome(iv, ir, pv, pr)
              i == Len(enriched_issues) + 1
          IN  /\ \E confidence \in calculate_rag_confidence(RelatedIndustries(outcome),
                                                            RelatedPastIssues(outcome)) :
                    /\ enriched_issues' =
                          Append(enriched_issues,
                                 EnrichedIssue(filtered_issues[i], RelatedIndustries(outcome),
                                               RelatedPastIssues(outcome), confidence))
                    /\ filtered_issues' =
                          [filtered_issues EXCEPT ![i] =
                              EnrichedIssue(filtered_issues[i], RelatedIndustries(outcome),
                                            RelatedPastIssues(outcome), confidence)]
              /\ outcomes' = Append(outcomes, outcome)
    /\ UNCHANGED <<pc, callVars, itemVars, sourceVars, apiVars, sysVars>>

\* One pass of "for i, issue in enumerate(filtered_issues, 1)": the two
\* analyses, each absorbing whatever its source calls do, the confidence, and
\* the enriched copy appended.
AnalyzeIssue ==
    /\ pc = "run_loop"
    /\ Len(enriched_issues) < Len(filtered_issues)
    /\ \E iv \in RunStoreOutcomes("industry"), ir \in RunModelOutcomes("industry"),
          pv \in RunStoreOutcomes("past_issue"), pr \in RunModelOutcomes("past_issue") :
          \E related \in {RelatedIndustries(Outcome(iv, ir, pv, pr))},
             past \in {RelatedPastIssues(Outcome(iv, ir, pv, pr))} :
             \E confidence \in calculate_rag_confidence(related, past) :
                /\ enriched_issues' =
                      Append(enriched_issues,
                             EnrichedIssue(filtered_issues[Len(enriched_issues) + 1],
                                           related, past, confidence))
                /\ outcomes' = Append(outcomes, Outcome(iv, ir, pv, pr))
    /\ UNCHANGED <<pc, filtered_issues, callVars, itemVars, sourceVars, apiVars, sysVars>>

\* return enriched_issues
ReturnEnriched ==
    /\ pc = "run_loop"
    /\ Len(enriched_issues) = Len(filtered_issues)
    /\ pc' = "run_returned"
    /\ UNCHANGED <<callVars, itemVars, sourceVars, apiVars, runVars, sysVars>>

NextRun ==
    \/ AnalyzeIssue
    \/ ReturnEnriched

SpecRun == InitRun /\ [][NextRun]_vars

\* ------------------------------------------------------- claims under Spec
CallReturned == pc \in {"industry_done", "past_issue_done", "industry_repeated", "past_issue_repeated"}

CallClass == IF pc \in {"industry", "industry_done", "industry_repeated"} THEN "industry" ELSE "past_issue"

VectorNames == {vector_candidates[i].name : i \in DOMAIN vector_candidates}

WellFormedAI == \A i \in DOMAIN ai_candidates : ai_candidates[i].shape = "ok"

Nominated(name) == \E i \in DOMAIN ai_candidates : ai_candidates[i].name = name

\* the last nomination of name in the AI list
LastNomination(name) ==
    ai_candidates[CHOOSE i \in DOMAIN ai_candidates :
        /\ ai_candidates[i].name = name
        /\ \A j \in DOMAIN ai_candidates : ai_candidates[j].name = name => j <= i]

\* the merged mapping of the call, before the cut to three (empty on a raise)
Merged ==
    IF CallClass = "industry"
    THEN combine_industry_results(vector_candidates, ai_candidates).value
    ELSE combine_past_issue_results(vector_candidates, ai_candidates).value

\* C1: the list _analyze_industry_for_issue / _analyze_past_issues_for_issue
\* returns has at most 3 entries and its final_score never increases from one
\* entry to the next.
C1_AtMostThreeSorted ==
    CallReturned =>
        /\ Len(final_candidates) <= 3
        /\ \A i, j \in DOMAIN final_candidates :
              i < j => final_candidates[i].final_score >= final_candidates[j].final_score

\* C1 witness: more than three names were merged, three came back, and the
\* first scores strictly higher than the last.
C1_Witness ==
    /\ pc = "past_issue_done"
    /\ Len(Merged) > 3
    /\ Len(final_candidates) = 3
    /\ final_candidates[1].final_score > final_candidates[3].final_score

\* C2: every returned entry's final_score is the tenth nearest to
\* vector_similarity/10 * 0.3 + ai_score * 0.7 of that same entry (in
\* thousandths: within 50 of 3 * similarity + 700 * score), and similarity 80.0
\* merged with AI score 9 scores 8.7.
C2_FinalScoreFormula ==
    CallReturned =>
        \A i \in DOMAIN final_candidates :
            LET e == final_candidates[i]
                exact == 3 * e.vector_similarity + 700 * e.ai_score
            IN  /\ 100 * e.final_score - exact <= 50
                /\ exact - 100 * e.final_score <= 50
                /\ (e.vector_similarity = 800 /\ e.ai_score = 9) => e.final_score = 87

\* C2 witness: a name found by the vector search at 80.0 and nominated with
\* score 9 is returned.
C2_Witness ==
    /\ pc = "industry_done"
    /\ \E i \in DOMAIN final_candidates :
          /\ final_candidates[i].vector_similarity = 800
          /\ final_candidates[i].ai_score = 9
          /\ final_candidates[i].name \in VectorNames
          /\ Nominated(final_candidates[i].name)

\* C3: an entry whose vector_similarity is within 0..100 and whose ai_score is
\* within 0..10 has a final_score within 0..10.
C3_FinalScoreRange ==
    CallReturned =>
        \A i \in DOMAIN final_candidates :
            LET e == final_candidates[i]
            IN  (e.vector_similarity \in 0..1000 /\ e.ai_score \in 0..10)
                    => e.final_score \in 0..100

\* C3 witness: the upper end is reached (similarity 100.0, score 10 gives 10.0)
\* next to an entry outside the premise, nominated with score 11.
C3_Witness ==
    /\ CallReturned
    /\ \E i, j \in DOMAIN final_candidates :
          /\ final_candidates[i].vector_similarity = 1000
          /\ final_candidates[i].ai_score = 10
          /\ final_candidates[i].final_score = 100
          /\ final_candidates[j].ai_score = 11

\* C4: a name that is neither in the catalog nor in the vector results is in
\* no returned entry, whatever the model nominated.
C4_NameFilter ==
    CallReturned =>
        \A i \in DOMAIN final_candidates :
            \/ final_candidates[i].name \in DOMAIN Catalog(CallClass)
            \/ final_candidates[i].name \in VectorNames

\* C4 witness: the model nominated an unlisted name, well-formed, and the call
\* returned the other candidates.
C4_Witness ==
    /\ pc = "industry_done"
    /\ \E i \in DOMAIN ai_candidates :
          /\ ai_candidates[i].shape = "ok"
          /\ ai_candidates[i].name \notin DOMAIN industry_dict
          /\ ai_candidates[i].name \notin VectorNames
    /\ Len(final_candidates) >= 2

\* C5: no two returned entries carry the same name.
C5_UniqueNames ==
    CallReturned =>
        \A i, j \in DOMAIN final_candidates :
            final_candidates[i].name = final_candidates[j].name => i = j

\* C5 witness: one name is in the vector list and nominated twice by the
\* model, and it is returned.
C5_Witness ==
    /\ pc = "past_issue_done"
    /\ \E i, j \in DOMAIN ai_candidates :
          /\ i < j
          /\ ai_candidates[i].name = ai_candidates[j].name
          /\ ai_candidates[i].name \in VectorNames
          /\ \E k \in DOMAIN final_candidates :
                final_candidates[k].name = ai_candidates[i].name

VectorCandidateOf(name) ==
    vector_candidates[CHOOSE i \in DOMAIN vector_candidates : vector_candidates[i].name = name]

\* C6: a returned entry whose name the vector search found and the model
\* nominated keeps the vector similarity, the vector-sourced description and
\* (past issues) the period of the vector candidate; only ai_score and
\* ai_reason come from the nomination.
C6_MergeKeepsVectorFields ==
    CallReturned =>
        \A i \in DOMAIN final_candidates :
            LET e == final_candidates[i]
            IN  (e.name \in VectorNames /\ Nominated(e.name)) =>
                    /\ e.vector_similarity = VectorCandidateOf(e.name).similarity
                    /\ e.description = VectorCandidateOf(e.name).description
                    /\ e.description # Catalog(CallClass)[e.name]
                    /\ (CallClass = "past_issue" => e.period = VectorCandidateOf(e.name).period)
                    /\ e.ai_score = LastNomination(e.name).score
                    /\ e.ai_reason = LastNomination(e.name).reason

\* C6 witness: a past issue found by the vector search and nominated by the
\* model is returned with the model's score.
C6_Witness ==
    /\ pc = "past_issue_done"
    /\ \E i \in DOMAIN final_candidates :
          /\ final_candidates[i].name \in VectorNames
          /\ Nominated(final_candidates[i].name)
          /\ final_candidates[i].ai_score = 9
          /\ final_candidates[i].ai_reason = AIReason
          /\ final_candidates[i].period # "N/A"

\* a catalog name the model nominated and the vector search did not find
AIOnly(name) ==
    /\ Nominated(name)
    /\ name \in DOMAIN Catalog(CallClass)
    /\ name \notin VectorNames

\* C7: a catalog name only the model nominated enters with vector_similarity
\* 0, the model's score and reason, the catalog description and (past issues)
\* period "N/A"; its final_score is the tenth nearest to 0.7 * ai_score (score
\* 6 gives 4.2); and it is returned unless three entries that score at least
\* as high take the three places.
C7_AIOnlyEntry ==
    CallReturned =>
        /\ \A i \in DOMAIN final_candidates :
              LET e == final_candidates[i]
              IN  e.name \notin VectorNames =>
                      /\ e.vector_similarity = 0
                      /\ e.ai_score = LastNomination(e.name).score
                      /\ e.ai_reason = LastNomination(e.name).reason
                      /\ e.description = Catalog(CallClass)[e.name]
                      /\ (CallClass = "past_issue" => e.period = "N/A")
                      /\ 100 * e.final_score - 700 * e.ai_score <= 50
                      /\ 700 * e.ai_score - 100 * e.final_score <= 50
                      /\ (e.ai_score = 6 => e.final_score = 42)
        /\ WellFormedAI =>
              \A name \in DOMAIN Catalog(CallClass) :
                  AIOnly(name) =>
                      \/ \E i \in DOMAIN final_candidates : final_candidates[i].name = name
                      \/ /\ Len(final_candidates) = 3
                         /\ \A i \in DOMAIN final_candidates :
                               10 * final_candidates[i].final_score
                                   >= 7 * LastNomination(name).score

\* C7 witness: no vector results, one valid nomination with score 6: the one
\* returned entry scores 4.2.
C7_Witness ==
    /\ pc = "industry_done"
    /\ vector_candidates = <<>>
    /\ Len(ai_candidates) = 1
    /\ Len(final_candidates) = 1
    /\ final_candidates[1].ai_score = 6
    /\ final_candidates[1].vector_similarity = 0
    /\ final_candidates[1].final_score = 42

FirstNomination(name) ==
    CHOOSE i \in DOMAIN ai_candidates :
        /\ ai_candidates[i].name = name
        /\ \A j \in DOMAIN ai_candidates : ai_candidates[j].name = name => i <= j

\* the place at which name entered all_candidates: vector candidates in the
\* order of the vector list, then the names only the model nominated, in the
\* order of their first nomination
InsertionRank(name) ==
    IF name \in VectorNames
    THEN CHOOSE i \in DOMAIN vector_candidates : vector_candidates[i].name = name
    ELSE Len(vector_candidates) + FirstNomination(name)

C8_EmptySourcesZeroConfidence ==
    /\ (pc \in {"item_industries", "item_past_issues", "item_enriched"} /\ empty_sources["industry"])
          => related_industries = <<>>
    /\ (pc \in {"item_past_issues", "item_enriched"} /\ empty_sources["past_issue"])
          => related_past_issues = <<>>
    /\ (pc = "item_enriched" /\ (empty_sources["industry"] \/ empty_sources["past_issue"]))
          => rag_confidence = 0

\* C8 witness: the industry sources were both empty while the past-issue set
\* holds scored entries, and the confidence has been computed.
C8_Witness ==
    /\ pc = "item_enriched"
    /\ empty_sources["industry"]
    /\ Len(related_past_issues) >= 2
    /\ related_past_issues[1].final_score > 0

\* C10: with both result sets non-empty the confidence is the tenth nearest to
\* (mean of the industries' final_score + mean of the past issues'
\* final_score) / 2; means 8.0 and 4.0 give 6.0.
C10_ConfidenceIsMeanOfMeans ==
    (pc = "item_enriched" /\ related_industries # <<>> /\ related_past_issues # <<>>) =>
        LET n == Len(related_industries)
            m == Len(related_past_issues)
            sum_i == SumFinalScore(related_industries)
            sum_p == SumFinalScore(related_past_issues)
        IN  /\ 2 * n * m * rag_confidence - (m * sum_i + n * sum_p) <= n * m
            /\ (m * sum_i + n * sum_p) - 2 * n * m * rag_confidence <= n * m
            /\ (sum_i = 80 * n /\ sum_p = 40 * m) => rag_confidence = 60

\* C10 witness: industries averaging 8.0 and past issues averaging 4.0 have
\* been blended into the confidence 6.0.
C10_Witness ==
    /\ pc = "item_enriched"
    /\ SumFinalScore(related_industries) = 80 * Len(related_industries)
    /\ SumFinalScore(related_past_issues) = 40 * Len(related_past_issues)
    /\ Len(related_industries) >= 1
    /\ Len(related_past_issues) >= 1
    /\ rag_confidence = 60

\* C11: when the industry result set or the past-issue result set of the item
\* is empty (one of them or both), the confidence of the item is 0.0, whatever
\* the final_score values in the other set.
C11_EitherEmptyZeroConfidence ==
    (pc = "item_enriched" /\ (related_industries = <<>> \/ related_past_issues = <<>>))
        => rag_confidence = 0

\* C11 witness: no past issue was returned while the industries score above
\* zero, and the confidence has been computed.
C11_Witness ==
    /\ pc = "item_enriched"
    /\ related_past_issues = <<>>
    /\ Len(related_industries) >= 2
    /\ \A i \in DOMAIN related_industries : related_industries[i].final_score > 0
    /\ rag_confidence = 0

\* ------------------------------------------------ claims under SpecSources
SourceClass ==
    IF pc \in {"industry_step1", "industry_step2", "industry_step3", "industry_return"}
    THEN "industry" ELSE "past_issue"

VectorSearched == pc \notin {"industry_step1", "past_issue_step1"}

AnalysisReturned == pc \in {"industry_return", "past_issue_return"}

\* the documents whose entity name, the one the adapter parses, is name
Occurrences(name) ==
    {i \in DOMAIN results.value :
        /\ results.value[i].marker_lines # <<>>
        /\ Head(results.value[i].marker_lines) = name}

FirstOccurrence(name) ==
    CHOOSE i \in Occurrences(name) : \A j \in Occurrences(name) : i <= j

\* the blend of the given vector list with the given AI list, cut to three
Blend(vector, ai) ==
    IF SourceClass = "industry"
    THEN analyze_industry_for_issue(vector, ai)
    ELSE analyze_past_issues_for_issue(vector, ai)

\* C12: whatever pairs the store query returned, the list the vector adapter
\* hands over holds catalog names only, each name once, and each candidate
\* carries the similarity percentage of the first retrieved document that
\* names it.
C12_AdapterCatalogDedupFirst ==
    VectorSearched =>
        /\ \A i \in DOMAIN vector_candidates :
              /\ vector_candidates[i].name \in DOMAIN Catalog(SourceClass)
              /\ Occurrences(vector_candidates[i].name) # {}
              /\ vector_candidates[i].similarity =
                    SimilarityPercentage(
                        results.value[FirstOccurrence(vector_candidates[i].name)].score)
        /\ \A i, j \in DOMAIN vector_candidates :
              vector_candidates[i].name = vector_candidates[j].name => i = j

\* C12 witness: two retrieved documents name the same catalog entity at
\* different distances, and the adapter handed over one candidate with the
\* similarity of the first.
C12_Witness ==
    /\ pc = "industry_step2"
    /\ Len(results.value) = 2
    /\ Occurrences("automobile") = {1, 2}
    /\ SimilarityPercentage(results.value[1].score) # SimilarityPercentage(results.value[2].score)
    /\ Len(vector_candidates) = 1
    /\ vector_candidates[1].similarity = SimilarityPercentage(results.value[1].score)

\* C13: when the store query raised, the adapter handed over the empty list,
\* the model was still asked, and the analysis returned the blend of the empty
\* vector list with the AI candidates: entries the model nominated, each with
\* vector_similarity 0.
C13_VectorFailureAIOnly ==
    (AnalysisReturned /\ results.raised) =>
        /\ vector_candidates = <<>>
        /\ "ai" \in completed
        /\ ai_candidates = ai_extract_candidates(SourceClass, response)
        /\ final_candidates = Blend(<<>>, ai_candidates)
        /\ \A i \in DOMAIN final_candidates :
              /\ final_candidates[i].vector_similarity = 0
              /\ Nominated(final_candidates[i].name)

\* C13 witness: the store query raised, the model nominated a catalog name
\* with score 9, and the analysis returned it as an AI-only entry.
C13_Witness ==
    /\ pc = "industry_return"
    /\ results.raised
    /\ Len(final_candidates) = 1
    /\ final_candidates[1].ai_score = 9
    /\ final_candidates[1].vector_similarity = 0
    /\ final_candidates[1].final_score = 63

\* C14: when the model request or the parsing of its response raised, the AI
\* candidate source handed over the empty list, and the analysis returned the
\* vector-only blend: the first three vector candidates' names, every entry
\* with ai_score 0 and ai_reason "".
C14_ModelFailureVectorOnly ==
    (AnalysisReturned /\ response.kind \in {"request_error", "parse_error"}) =>
        /\ ai_candidates = <<>>
        /\ final_candidates = Blend(vector_candidates, <<>>)
        /\ Len(final_candidates) = (IF Len(vector_candidates) < 3 THEN Len(vector_candidates) ELSE 3)
        /\ \A i \in DOMAIN final_candidates :
              /\ final_candidates[i].ai_score = 0
              /\ final_candidates[i].ai_reason = ""
              /\ final_candidates[i].name \in VectorNames

\* C14 witness: the parser raised while the vector search had found two
\* names; both came back with ai_score 0.
C14_Witness ==
    /\ pc = "past_issue_return"
    /\ response.kind = "parse_error"
    /\ Len(vector_candidates) = 2
    /\ Len(final_candidates) = 2
    /\ final_candidates[1].final_score > final_candidates[2].final_score

\* a parsed response with a candidates value that is no list of well-formed
\* entries
MalformedResponse ==
    /\ response.kind = "candidates"
    /\ \E i \in DOMAIN response.value : response.value[i].shape # "ok"

\* C15: a malformed model response (a candidates value that is no list, an
\* entry without the name key, the score or the reason, a non-numeric score)
\* gives the result set an unavailable model gives: the blend of the vector
\* candidates with an empty AI list.
C15_MalformedAsUnavailable ==
    (AnalysisReturned /\ MalformedResponse) =>
        final_candidates = Blend(vector_candidates, <<>>)

\* C17: the merge of one analysis is entered, and its result returned, only
\* when both the vector search and the model call of that analysis are over.
C17_MergeAfterBothSources ==
    pc \in {"industry_step3", "industry_return", "past_issue_step3", "past_issue_return"}
        => completed = {"vector", "ai"}

\* C17 witness: the merge is about to start on a non-empty vector list while
\* the model call has failed.
C17_Witness ==
    /\ pc = "past_issue_step3"
    /\ completed = {"vector", "ai"}
    /\ ~results.raised
    /\ vector_candidates # <<>>
    /\ response.kind = "request_error"

\* ------------------------------------------- claims about the news API
\* C18: every blended entry the news API exposes in the detailed lists carries
\* under vector_score the vector similarity the blending computed for it, and
\* the same final_score, ai_score, ai_reason and description.
C18_ExposedScoresAreBlended ==
    pc = "item_exposed" =>
        /\ Len(exposed.related_industries_detail) = Len(related_industries)
        /\ Len(exposed.related_past_issues_detail) = Len(related_past_issues)
        /\ \A i \in DOMAIN related_industries :
              LET e == related_industries[i]
                  d == exposed.related_industries_detail[i]
              IN  /\ d.vector_score = e.vector_similarity
                  /\ d.final_score = e.final_score
                  /\ d.ai_score = e.ai_score
                  /\ d.ai_reason = e.ai_reason
                  /\ d.description = e.description
        /\ \A i \in DOMAIN related_past_issues :
              LET e == related_past_issues[i]
                  d == exposed.related_past_issues_detail[i]
              IN  /\ d.vector_score = e.vector_similarity
                  /\ d.final_score = e.final_score
                  /\ d.ai_score = e.ai_score
                  /\ d.ai_reason = e.ai_reason
                  /\ d.description = e.description

\* ---------------------------------------------------- claims under SpecRun
\* the source call raised or returned malformed data
StoreFailed(store_outcome) == store_outcome \in {Raised, Returned(<<MalformedDoc>>)}

ModelFailed(model_outcome) ==
    \/ model_outcome.kind # "candidates"
    \/ \E i \in DOMAIN model_outcome.value : model_outcome.value[i].shape # "ok"

\* C16: whatever the four source calls of an item do (succeed, raise, return
\* malformed data), the run does not end in an exception; when it returns,
\* every input item has been analysed; an item all of whose source calls
\* failed has empty result sets and confidence 0.0, and an item whose source
\* calls succeeded has its result sets and a confidence above zero whatever
\* happened to the other items.
C16_FailuresAbsorbed ==
    /\ pc \in {"run_loop", "run_returned"} =>
          /\ Len(enriched_issues) = Len(outcomes)
          /\ \A i \in DOMAIN enriched_issues :
                LET o == outcomes[i]
                    e == enriched_issues[i]
                IN  /\ e.rag_confidence >= 0
                    /\ (StoreFailed(o.industry_results) /\ ModelFailed(o.industry_response))
                          => e.related_industries = <<>>
                    /\ (StoreFailed(o.past_issue_results) /\ ModelFailed(o.past_issue_response))
                          => e.related_past_issues = <<>>
                    /\ (e.related_industries = <<>> \/ e.related_past_issues = <<>>)
                          => e.rag_confidence = 0
                    /\ (~StoreFailed(o.industry_results) /\ ~ModelFailed(o.industry_response)
                        /\ ~StoreFailed(o.past_issue_results) /\ ~ModelFailed(o.past_issue_response))
                          => /\ Len(e.related_industries) = 1
                             /\ Len(e.related_past_issues) = 1
                             /\ e.rag_confidence > 0
    /\ pc = "run_returned" => Len(enriched_issues) = Len(filtered_issues)
    /\ pc # "run_raised"

\* C16 witness: the run returned two items; all four source calls of the
\* first raised, and the second was analysed with a confidence above zero.
C16_Witness ==
    /\ pc = "run_returned"
    /\ Len(enriched_issues) = 2
    /\ outcomes[1].industry_results.raised
    /\ outcomes[1].past_issue_results.raised
    /\ outcomes[1].industry_response.kind = "request_error"
    /\ outcomes[1].past_issue_response.kind = "request_error"
    /\ enriched_issues[1].rag_confidence = 0
    /\ enriched_issues[2].related_industries # <<>>
    /\ enriched_issues[2].rag_confidence > 0

\* C19: the returned list holds one enriched item per input item, in input
\* order; an enriched item carries every field of its input item with the
\* value it had, and the three outputs computed for that item; the input list
\* and its items are as they were handed over.
C19_OnePerItemFieldsKept ==
    pc = "run_returned" =>
        /\ Len(enriched_issues) = Len(filtered_issues)
        /\ filtered_issues = given
        /\ \A i \in DOMAIN enriched_issues :
              /\ DOMAIN enriched_issues[i] = DOMAIN given[i] \cup OutputKeys
              /\ \A key \in DOMAIN given[i] : enriched_issues[i][key] = given[i][key]
              /\ enriched_issues[i].related_industries = RelatedIndustries(outcomes[i])
              /\ enriched_issues[i].related_past_issues = RelatedPastIssues(outcomes[i])
              /\ enriched_issues[i].rag_confidence \in
                    calculate_rag_confidence(enriched_issues[i].related_industries,
                                             enriched_issues[i].related_past_issues)

\* C19 witness: two items came back in input order, with different result
\* sets.
C19_Witness ==
    /\ pc = "run_returned"
    /\ Len(enriched_issues) = 2
    /\ enriched_issues[1].title = <<"title", 1>>
    /\ enriched_issues[2].title = <<"title", 2>>
    /\ enriched_issues[1].related_industries # enriched_issues[2].related_industries
    /\ enriched_issues[1].rag_confidence # enriched_issues[2].rag_confidence

\* ------------------------------------------------ the analysis stands still
\* the state of the analysis while another part of the server runs
AnalysisIdle ==
    /\ vector_candidates = <<>>
    /\ ai_candidates = <<>>
    /\ given = [vector |-> <<>>, ai |-> <<>>]
    /\ final_candidates = <<>>
    /\ repeated = <<>>
    /\ related_industries = <<>>
    /\ related_past_issues = <<>>
    /\ rag_confidence = 0
    /\ empty_sources = [cls \in Classes |-> FALSE]
    /\ results = Returned(<<>>)
    /\ response = Response("no_candidates", <<>>)
    /\ completed = {}
    /\ exposed = NotExposed
    /\ filtered_issues = <<>>
    /\ enriched_issues = <<>>
    /\ outcomes = <<>>

analysisVars == <<callVars, itemVars, sourceVars, apiVars, runVars>>

\* --------------------------------- SpecPipeline: execute_full_pipeline calls
\* One PipelineService runs execute_full_pipeline MaxCalls times.  The crawling
\* service, the RAG service and the file system are the environment: each call
\* into them returns or raises.
MaxCrawled == 2
MaxCalls == 3

\* the list of the first n crawled issues, by issue number
FirstIssues(n) == [i \in 1..n |-> i]

\* what crawl_and_filter_news can leave behind: an exception, or a result whose
\* filtered issues are some of the crawled ones
CrawlingOutcomes ==
    {Raised} \cup
    { Returned([all_issues |-> FirstIssues(count[1]),
                filtered_issues |-> FirstIssues(count[2])]) :
        count \in {c \in (0..MaxCrawled) \X (0..MaxCrawled) : c[2] <= c[1]} }

\* what analyze_issues_with_rag can leave behind for the list it is given
RagOutcomes(issues) == {Raised, Returned(issues)}

\* what _prepare_api_data can leave behind
ApiOutcomes(issues) == {Raised, Returned([selected_issues |-> issues])}

\* what _save_pipeline_result can do: write the file, fail before the file is
\* created, or fail while writing it; a failure is swallowed and "" returned
SaveOutcomes == {"written", "not_created", "broken_off"}

\* the locals of a call at its first statement, with the result files the
\* directory already holds
NewCall(files, calls) ==
    [ state           |-> "step1",
      result          |-> [final_status |-> "running", steps_completed |-> <<>>,
                           errors |-> <<>>],
      crawling_result |-> [all_issues |-> <<>>, filtered_issues |-> <<>>],
      enriched_issues |-> <<>>,
      rag_invoked     |-> FALSE,
      saved_file      |-> "unset",
      files           |-> files,
      files_at_call   |-> files,
      calls           |-> calls ]

\* faulty variant: the handler of a failed step saves the result as well
FailPipeline_SavesResult(p, error) ==
    [p EXCEPT !.state = "raised",
              !.result = [p.result EXCEPT !.final_status = "failed",
                                          !.errors = <<error>>],
              !.files = p.files + 1]

\* except Exception as e: result.update(...); raise Exception(error_msg)
FailPipeline(p, error) ==
    [p EXCEPT !.state = "raised",
              !.result = [p.result EXCEPT !.final_status = "failed",
                                          !.errors = <<error>>]]

\* result["steps_completed"].append(step)
StepCompleted(p, step, next) ==
    [p EXCEPT !.state = next,
              !.result = [p.result EXCEPT
                              !.steps_completed = Append(@, step)]]

InitPipeline ==
    /\ pc = "pipeline"
    /\ AnalysisIdle
    /\ pipeline = NewCall(0, 1)
    /\ latest = NotStarted
    /\ crawler = NotStarted
    /\ stock_filter = NotStarted
    /\ simulation = NotStarted
    /\ server = NotStarted
    /\ enrichment = NotStarted

otherThanPipeline ==
    <<pc, analysisVars, latest, crawler, stock_filter, simulation, server, enrichment>>

\* Step 1: crawling_result = self.crawling_service.crawl_and_filter_news(...)
CrawlingStep ==
    /\ pipeline.state = "step1"
    /\ \E outcome \in CrawlingOutcomes :
          pipeline' =
              IF outcome = Raised
              THEN FailPipeline(pipeline, "crawling")
              ELSE StepCompleted([pipeline EXCEPT !.crawling_result = outcome.value],
                                 "crawling_and_filtering", "step2")
    /\ UNCHANGED otherThanPipeline

\* faulty variant: an empty filtered list is handed to the RAG service
RagAnalysisStep_NoEmptyCheck ==
    /\ pipeline.state = "step2"
    /\ \E outcome \in RagOutcomes(pipeline.crawling_result.filtered_issues) :
          pipeline' =
              IF outcome = Raised
              THEN FailPipeline([pipeline EXCEPT !.rag_invoked = TRUE], "rag")
              ELSE StepCompleted([pipeline EXCEPT !.rag_invoked = TRUE,
                                                  !.enriched_issues = outcome.value],
                                 "rag_analysis", "step3")
    /\ UNCHANGED otherThanPipeline

\* Step 2: if not filtered_issues: raise ValueError;
\* enriched_issues = self.rag_service.analyze_issues_with_rag(filtered_issues)
RagAnalysisStep ==
    /\ pipeline.state = "step2"
    /\ IF pipeline.crawling_result.filtered_issues = <<>>
       THEN pipeline' = FailPipeline(pipeline, "no_filtered_issues")
       ELSE \E outcome \in RagOutcomes(pipeline.crawling_result.filtered_issues) :
               pipeline' =
                   IF outcome = Raised
                   THEN FailPipeline([pipeline EXCEPT !.rag_invoked = TRUE], "rag")
                   ELSE StepCompleted([pipeline EXCEPT !.rag_invoked = TRUE,
                                                       !.enriched_issues = outcome.value],
                                      "rag_analysis", "step3")
    /\ UNCHANGED otherThanPipeline

\* Step 3: api_data = self._prepare_api_data(...), then
\* result.update({..., "final_status": "success"})
ApiPreparationStep ==
    /\ pipeline.state = "step3"
    /\ \E outcome \in ApiOutcomes(pipeline.enriched_issues) :
          pipeline' =
              IF outcome = Raised
              THEN FailPipeline(pipeline, "api_preparation")
              ELSE [StepCompleted(pipeline, "api_preparation", "save")
                        EXCEPT !.result.final_status = "success"]
    /\ UNCHANGED otherThanPipeline

\* saved_file = self._save_pipeline_result(result); return result
SaveAndReturn ==
    /\ pipeline.state = "save"
    /\ \E outcome \in SaveOutcomes :
          pipeline' =
              [pipeline EXCEPT
                  !.state = "returned",
                  !.saved_file = IF outcome = "written" THEN "path" ELSE "",
                  !.files = IF outcome = "not_created" THEN @ ELSE @ + 1]
    /\ UNCHANGED otherThanPipeline

\* the caller runs the pipeline once more, over the directory as it is
ExecuteAgain ==
    /\ pipeline.state \in {"returned", "raised"}
    /\ pipeline.calls < MaxCalls
    /\ pipeline' = NewCall(pipeline.files, pipeline.calls + 1)
    /\ UNCHANGED otherThanPipeline

NextPipeline ==
    \/ CrawlingStep
    \/ RagAnalysisStep
    \/ ApiPreparationStep
    \/ SaveAndReturn
    \/ ExecuteAgain

SpecPipeline == InitPipeline /\ [][NextPipeline]_vars

\* ------------------------------------------------------------------ C21
\* the three steps in the order the pipeline runs them
PipelineSteps == <<"crawling_and_filtering", "rag_analysis", "api_preparation">>

IsPrefix(s, t) == Len(s) <= Len(t) /\ \A i \in DOMAIN s : s[i] = t[i]

\* C21: steps_completed is always a prefix of [crawling_and_filtering,
\* rag_analysis, api_preparation]; final_status is "success" and a result
\* file has been saved by the call only when all three steps are in
\* steps_completed; a call that ends with fewer than three steps has raised,
\* and a call that raised has saved no result file.
C21_StepsInOrderSaveLast ==
    /\ IsPrefix(pipeline.result.steps_completed, PipelineSteps)
    /\ pipeline.result.final_status = "success" =>
          pipeline.result.steps_completed = PipelineSteps
    /\ pipeline.files > pipeline.files_at_call =>
          /\ pipeline.result.steps_completed = PipelineSteps
          /\ pipeline.result.final_status = "success"
    /\ pipeline.state = "returned" =>
          pipeline.result.steps_completed = PipelineSteps
    /\ pipeline.state = "raised" =>
          /\ pipeline.files = pipeline.files_at_call
          /\ pipeline.result.final_status = "failed"
          /\ pipeline.result.steps_completed # PipelineSteps

\* C21 witness: a second call returned with its result file saved, after a
\* first call that failed at a step and saved nothing.
C21_Witness ==
    /\ pipeline.state = "returned"
    /\ pipeline.calls = 2
    /\ pipeline.files_at_call = 0
    /\ pipeline.files = 1
    /\ pipeline.saved_file = "path"
    /\ pipeline.result.steps_completed = PipelineSteps

\* ------------------------------------------------------------------ C22
\* C22: when crawling and filtering left no filtered issues, the call ends
\* raised, analyze_issues_with_rag has not been invoked and rag_analysis is
\* not in steps_completed.
C22_NoFilteredIssuesFailsBeforeRag ==
    (/\ pipeline.state \notin {"step1", "step2"}
     /\ "crawling_and_filtering" \in
            {pipeline.result.steps_completed[i] :
                i \in DOMAIN pipeline.result.steps_completed}
     /\ pipeline.crawling_result.filtered_issues = <<>>)
    => /\ pipeline.state = "raised"
       /\ ~pipeline.rag_invoked
       /\ pipeline.result.steps_completed = <<"crawling_and_filtering">>
       /\ pipeline.result.errors = <<"no_filtered_issues">>

\* C22 witness: the crawl brought issues, the filter kept none, and the call
\* raised at the check.
C22_Witness ==
    /\ pipeline.state = "raised"
    /\ pipeline.crawling_result.all_issues # <<>>
    /\ pipeline.crawling_result.filtered_issues = <<>>
    /\ pipeline.result.steps_completed = <<"crawling_and_filtering">>
    /\ ~pipeline.rag_invoked

\* --------------------- SpecEnrich: _enrich_with_rag_details over any shapes
\* The values of the two related fields carry their Python type, so that the
\* isinstance tests of the loop decide as they do in the code; the locals
\* detailed_industries and detailed_past_issues live across the iterations of
\* the loop, unbound until an iteration assigns them.
MaxEnrich == 2

PyList(items) == [type |-> "list", items |-> items]
PyStr(text) == [type |-> "str", text |-> text]
PyDict(fields) == [type |-> "dict", fields |-> fields]

Grounded == [is_grounded |-> TRUE, supporting_quote |-> "quote"]

\* the shapes of a related field: a list of dicts, a list of strings, a string
FieldValues(name) ==
    { PyList(<<PyDict([name |-> name, final_score |-> 86, verification |-> Grounded])>>),
      PyList(<<PyStr(name)>>),
      PyStr(name) }

\* the issues handed to the function: each related field has one of the
\* shapes or is missing
ShapedIssues ==
    { [title |-> "issue"] } \cup
    { [title |-> "issue", related_industries |-> industries] :
        industries \in FieldValues("industry") } \cup
    { [title |-> "issue", related_past_issues |-> past_issues] :
        past_issues \in FieldValues("past issue") } \cup
    { [title |-> "issue", related_industries |-> industries,
       related_past_issues |-> past_issues] :
        industries \in FieldValues("industry"),
        past_issues \in FieldValues("past issue") }

Unbound == [bound |-> FALSE, items |-> <<>>]
Bound(items) == [bound |-> TRUE, items |-> items]

\* the entry built for a list element that is not a dict
ConvertedEntry(item) ==
    [name |-> item.text, final_score |-> 0, vector_score |-> 0, ai_score |-> 0,
     ai_reason |-> "converted", description |-> <<>>,
     verification |-> Unverified,
     score_breakdown |-> [vector_weight |-> 3, ai_weight |-> 7,
                          penalty_applied |-> TRUE]]

\* the inner loop over raw_industries
DetailedIndustries(raw) ==
    [i \in DOMAIN raw.items |->
        IF raw.items[i].type = "dict" THEN DetailedIndustry(raw.items[i].fields)
        ELSE ConvertedEntry(raw.items[i])]

\* the inner loop over raw_past_issues
DetailedPastIssues(raw) ==
    [i \in DOMAIN raw.items |->
        IF raw.items[i].type = "dict" THEN DetailedPastIssue(raw.items[i].fields)
        ELSE ConvertedEntry(raw.items[i]) @@ [period |-> "N/A"]]

\* One iteration of the loop of _enrich_with_rag_details: a related field
\* that is a list rebinds its local and sets its detail key, any other value
\* leaves both alone; the sum over the two locals raises when one of them is
\* unbound.
EnrichIteration(loop, issue) ==
    LET raw_industries == Get(issue, "related_industries", PyList(<<>>))
        raw_past_issues == Get(issue, "related_past_issues", PyList(<<>>))
        detailed_industries ==
            IF raw_industries.type = "list"
            THEN Bound(DetailedIndustries(raw_industries)) ELSE loop.detailed_industries
        detailed_past_issues ==
            IF raw_past_issues.type = "list"
            THEN Bound(DetailedPastIssues(raw_past_issues)) ELSE loop.detailed_past_issues
        details ==
            (IF raw_industries.type = "list"
             THEN [related_industries_detail |-> detailed_industries.items]
             ELSE <<>>)
            @@ (IF raw_past_issues.type = "list"
                THEN [related_past_issues_detail |-> detailed_past_issues.items]
                ELSE <<>>)
    IN  IF ~detailed_industries.bound \/ ~detailed_past_issues.bound
        THEN [loop EXCEPT !.raised = TRUE,
                          !.detailed_industries = detailed_industries,
                          !.detailed_past_issues = detailed_past_issues]
        ELSE [loop EXCEPT
                !.detailed_industries = detailed_industries,
                !.detailed_past_issues = detailed_past_issues,
                !.enriched = Append(@,
                    [rag_confidence_detail |->
                        [consistency_score |-> 0, peak_relevance_score |-> 0,
                         total_verified_items |->
                             VerifiedItems(detailed_industries.items)
                             + VerifiedItems(detailed_past_issues.items)]]
                    @@ details @@ issue)]

\* enriched = [] and the two locals not yet assigned
EnrichStart ==
    [raised |-> FALSE, enriched |-> <<>>,
     detailed_industries |-> Unbound, detailed_past_issues |-> Unbound]

\* the loop from the issue at position i on, ended by the first raise
RECURSIVE EnrichFrom(_, _, _)
EnrichFrom(loop, issues, i) ==
    IF loop.raised \/ i > Len(issues) THEN loop
    ELSE EnrichFrom(EnrichIteration(loop, issues[i]), issues, i + 1)

\* _enrich_with_rag_details(issues): the list it returns, or the exception
EnrichWithRagDetails(issues) ==
    LET loop == EnrichFrom(EnrichStart, issues, 1)
    IN  IF loop.raised THEN Raised ELSE Returned(loop.enriched)

InitEnrich ==
    /\ pc = "enrich"
    /\ AnalysisIdle
    /\ pipeline = NotStarted
    /\ latest = NotStarted
    /\ crawler = NotStarted
    /\ stock_filter = NotStarted
    /\ simulation = NotStarted
    /\ server = NotStarted
    /\ \E issues \in SeqsUpTo(ShapedIssues, MaxEnrich) :
          enrichment = [state |-> "loop", issues |-> issues, loop |-> EnrichStart]

otherThanEnrichment ==
    <<pc, analysisVars, pipeline, latest, crawler, stock_filter, simulation, server>>

\* for issue in issues: ... enriched.append(enriched_issue)
EnrichNextIssue ==
    /\ enrichment.state = "loop"
    /\ Len(enrichment.loop.enriched) < Len(enrichment.issues)
    /\ \E loop \in {EnrichIteration(enrichment.loop,
                        enrichment.issues[Len(enrichment.loop.enriched) + 1])} :
          enrichment' = [enrichment EXCEPT
                            !.loop = loop,
                            !.state = IF loop.raised THEN "raised" ELSE "loop"]
    /\ UNCHANGED otherThanEnrichment

\* return enriched
EnrichReturn ==
    /\ enrichment.state = "loop"
    /\ Len(enrichment.loop.enriched) = Len(enrichment.issues)
    /\ enrichment' = [enrichment EXCEPT !.state = "returned"]
    /\ UNCHANGED otherThanEnrichment

NextEnrich ==
    \/ EnrichNextIssue
    \/ EnrichReturn

SpecEnrich == InitEnrich /\ [][NextEnrich]_vars

\* ------------------------------------------------------------------ C30
\* the grounded entries of one related field of an issue (none when the field
\* is missing or is not a list)
RECURSIVE GroundedItems(_)
GroundedItems(items) ==
    IF items = <<>> THEN 0
    ELSE (IF Head(items).type = "dict"
             /\ "verification" \in DOMAIN Head(items).fields
             /\ Head(items).fields.verification.is_grounded
          THEN 1 ELSE 0) + GroundedItems(Tail(items))

OwnGrounded(issue, key) ==
    IF key \in DOMAIN issue /\ issue[key].type = "list"
    THEN GroundedItems(issue[key].items) ELSE 0

\* C30: the call does not raise, whatever the shapes of the two related
\* fields; it returns one entry per issue, and the total_verified_items of
\* an entry counts the grounded entries of its own issue only.
C30_OnePerIssueOwnEntriesOnly ==
    /\ enrichment.state # "raised"
    /\ enrichment.state = "returned" =>
          /\ Len(enrichment.loop.enriched) = Len(enrichment.issues)
          /\ \A i \in DOMAIN enrichment.issues :
                enrichment.loop.enriched[i].rag_confidence_detail.total_verified_items
                    = OwnGrounded(enrichment.issues[i], "related_industries")
                      + OwnGrounded(enrichment.issues[i], "related_past_issues")

\* ------------------------------------- SpecLatest: the latest-issues lookups
\* The database and the result directory are the environment of
\* news_api.get_latest_news_issues and of
\* PipelineService.get_latest_analyzed_issues; Init draws what they hold, and
\* each lookup is one action.
MaxStored == 2
MaxFiles == 2

\* an analysed issue as the pipeline writes it, named by where it is stored
StoredIssue(store, k) ==
    [title |-> <<store, k>>, related_industries |-> PyList(<<>>),
     related_past_issues |-> PyList(<<>>)]

StoredIssues(store, n) == [k \in 1..n |-> StoredIssue(store, k)]

\* a row whose related industries come back as text, not as a list
TextIssue(store, k) ==
    [title |-> <<store, k>>, related_industries |-> PyStr("industry"),
     related_past_issues |-> PyList(<<>>)]

\* the database service: whether is_initialized() holds (only pipeline_service
\* looks), and what get_latest_news_issues() leaves behind when it is called
DatabaseOutcomes ==
    { [initialized |-> FALSE, answer |-> Returned(<<>>)],
      [initialized |-> FALSE, answer |-> Raised],
      [initialized |-> TRUE, answer |-> Raised] } \cup
    { [initialized |-> TRUE, answer |-> Returned(StoredIssues("database", n))] :
        n \in 0..MaxStored } \cup
    { [initialized |-> TRUE,
       answer |-> Returned(<<TextIssue("database", 1)>> \o StoredIssues("database", n))] :
        n \in 0..(MaxStored - 1) }

\* the layouts of a result file: selected_issues at the top, selected_issues
\* under api_ready_data.data, neither key, and a file json.load rejects
FileLayouts == {"selected_issues", "api_ready_data", "neither", "not_json"}

FileValues ==
    { [mtime |-> m, layout |-> layout,
       issues |-> StoredIssues(<<"file", m>>, n)] :
        m \in 1..MaxFiles, layout \in FileLayouts, n \in 0..1 }

\* the result files of the directory in the order glob lists them, no two
\* written at the same time
Directories ==
    { files \in SeqsUpTo(FileValues, MaxFiles) :
        /\ \A i, j \in DOMAIN files : i # j => files[i].mtime # files[j].mtime
        /\ \A i \in DOMAIN files :
              files[i].layout \in {"neither", "not_json"} => files[i].issues = <<>> }

\* max(pipeline_files, key=lambda p: p.stat().st_mtime)
LatestFile(files) ==
    CHOOSE f \in {files[i] : i \in DOMAIN files} :
        \A i \in DOMAIN files : files[i].mtime <= f.mtime

\* _load_fallback_data: [] without a file, [] on any exception, else the
\* issues of the newest file under either layout
load_fallback_data(files) ==
    IF files = <<>> THEN [issues |-> <<>>, opened |-> {}]
    ELSE LET latest_file == LatestFile(files)
         IN  [issues |-> IF latest_file.layout \in {"selected_issues", "api_ready_data"}
                         THEN latest_file.issues
                         ELSE <<>>,
              opened |-> {latest_file.mtime}]

\* the body of a successful response of /latest
LatestResponse(issues, source) ==
    [kind |-> "ok", issues |-> issues, count |-> Len(issues), source |-> source]

\* the response built from the list a store gave: the enriched list with its
\* count, or the 500 of the outer handler when the enrichment raised
EnrichedResponse(issues, source) ==
    LET enriched == EnrichWithRagDetails(issues)
    IN  IF enriched.raised THEN [kind |-> "http_500"]
        ELSE LatestResponse(enriched.value, source)

\* news_api.get_latest_news_issues: the response, and the files it opened
get_latest_news_issues(database, files) ==
    IF database.answer.raised
    THEN [response |-> [kind |-> "http_500"], opened |-> {}]
    ELSE IF database.answer.value = <<>>
    THEN LET fallback == load_fallback_data(files)
         IN  IF fallback.issues # <<>>
             THEN [response |-> EnrichedResponse(fallback.issues, "file"),
                   opened |-> fallback.opened]
             ELSE [response |-> LatestResponse(<<>>, "none"), opened |-> fallback.opened]
    ELSE [response |-> EnrichedResponse(database.answer.value, "database"),
          opened |-> {}]

\* PipelineService.get_latest_analyzed_issues: the list, and the files it
\* opened; only the api_ready_data layout is read, and any exception gives []
get_latest_analyzed_issues(database, files) ==
    IF database.initialized /\ database.answer.raised
    THEN [issues |-> <<>>, opened |-> {}]
    ELSE IF database.initialized /\ database.answer.value # <<>>
    THEN [issues |-> database.answer.value, opened |-> {}]
    ELSE IF files = <<>>
    THEN [issues |-> <<>>, opened |-> {}]
    ELSE LET latest_file == LatestFile(files)
         IN  [issues |-> IF latest_file.layout = "api_ready_data"
                         THEN latest_file.issues
                         ELSE <<>>,
              opened |-> {latest_file.mtime}]

InitLatest ==
    /\ pc = "latest"
    /\ AnalysisIdle
    /\ pipeline = NotStarted
    /\ \E database \in DatabaseOutcomes, files \in Directories :
          latest = [state |-> "stored", database |-> database, files |-> files]
    /\ crawler = NotStarted
    /\ stock_filter = NotStarted
    /\ simulation = NotStarted
    /\ server = NotStarted
    /\ enrichment = NotStarted

otherThanLatest ==
    <<pc, analysisVars, pipeline, crawler, stock_filter, simulation, server, enrichment>>

\* GET /latest
GetLatestNewsIssues ==
    /\ latest.state = "stored"
    /\ \E looked \in {get_latest_news_issues(latest.database, latest.files)} :
          latest' = [state |-> "responded", database |-> latest.database,
                     files |-> latest.files, response |-> looked.response,
                     opened |-> looked.opened]
    /\ UNCHANGED otherThanLatest

\* pipeline_service.get_latest_analyzed_issues()
GetLatestAnalyzedIssues ==
    /\ latest.state = "stored"
    /\ \E looked \in {get_latest_analyzed_issues(latest.database, latest.files)} :
          latest' = [state |-> "returned", database |-> latest.database,
                     files |-> latest.files, issues |-> looked.issues,
                     opened |-> looked.opened]
    /\ UNCHANGED otherThanLatest

NextLatest ==
    \/ GetLatestNewsIssues
    \/ GetLatestAnalyzedIssues

SpecLatest == InitLatest /\ [][NextLatest]_vars

\* ------------------------------------------------------------------ C23
\* the database gave a non-empty list
DatabaseHasIssues ==
    /\ latest.database.initialized
    /\ ~latest.database.answer.raised
    /\ latest.database.answer.value # <<>>

\* the database gave no issue: it answered with an empty list, or the lookup
\* found it not initialized and did not ask
DatabaseHasNothing ==
    \/ /\ ~latest.database.answer.raised
       /\ latest.database.answer.value = <<>>
    \/ /\ latest.state = "returned"
       /\ ~latest.database.initialized

\* the issues a finished lookup handed back (none with an error response)
LookedUp ==
    IF latest.state = "returned" THEN latest.issues
    ELSE IF latest.response.kind = "ok" THEN latest.response.issues
    ELSE <<>>

\* the returned entries are the stored issues, field by field
SameIssues(returned, stored) ==
    /\ Len(returned) = Len(stored)
    /\ \A i \in DOMAIN stored :
          \A key \in DOMAIN stored[i] : returned[i][key] = stored[i][key]

\* C23: a non-empty database list is returned and no file is opened; a file is
\* opened only when the database gave nothing, and then only the newest one;
\* with nothing in the database and nothing in the newest file the result is
\* empty; the count of a response is the number of issues in it.
C23_DatabaseFirstFileSecond ==
    latest.state \in {"responded", "returned"} =>
        /\ DatabaseHasIssues =>
              /\ latest.opened = {}
              /\ SameIssues(LookedUp, latest.database.answer.value)
        /\ latest.opened # {} =>
              /\ DatabaseHasNothing
              /\ latest.opened = {LatestFile(latest.files).mtime}
        /\ (DatabaseHasNothing /\ latest.opened = {}) => LookedUp = <<>>
        /\ (DatabaseHasNothing /\ latest.opened # {}
                /\ LatestFile(latest.files).issues = <<>>) => LookedUp = <<>>
        /\ (latest.state = "responded" /\ latest.response.kind = "ok") =>
              latest.response.count = Len(latest.response.issues)
        /\ (latest.state = "responded" /\ latest.response.kind = "ok"
                /\ DatabaseHasNothing /\ LookedUp = <<>>) =>
              latest.response.count = 0

\* ------------------------------- SpecCrawl: the loops of the crawling proxy
\* Init draws the call that runs: crawl_all_categories_with_retry of the
\* proxy, or _crawl_issues_in_category of the crawler it creates.  The
\* browser is the environment: every call into it returns or raises.
MaxFound == 2
MaxIssuesPerCategory == 4

max_retries == 3
retry_delay == 5
max_failures == 3

\* what one crawler.crawl_all_categories() can leave behind: an exception, or
\* a result with its issue count
AttemptOutcomes ==
    {Raised} \cup
    {Returned([total_issues |-> n, all_issues |-> FirstIssues(n)]) : n \in 0..MaxFound}

\* _create_failed_result(error_msg)
create_failed_result(error_msg) ==
    [total_issues |-> 0, all_issues |-> <<>>, error |-> error_msg]

\* crawl_all_categories_with_retry at its first statement
RetryStart ==
    [fn |-> "retry", state |-> "attempting", attempt |-> 1, log |-> <<>>,
     waits |-> <<>>, result |-> create_failed_result("none")]

\* faulty variant: the proxy sleeps before every retry
RetryIteration_AlwaysWaits(c, outcome) ==
    LET logged == [c EXCEPT !.log = Append(@, outcome)]
    IN  IF ~outcome.raised /\ outcome.value.total_issues > 0
        THEN [logged EXCEPT !.state = "returned", !.result = outcome.value]
        ELSE IF c.attempt < max_retries
        THEN [logged EXCEPT
                 !.attempt = @ + 1,
                 !.waits = Append(@, [after |-> c.attempt,
                                      seconds |-> retry_delay * c.attempt])]
        ELSE [logged EXCEPT !.state = "returned",
                            !.result = create_failed_result("failed")]

\* One iteration of the for loop over attempts: return on a result with
\* issues; go on at once after a result without issues; after an exception
\* sleep retry_delay * attempt and go on, or return the failed result when it
\* was the last attempt; after the loop, return the failed result.
RetryIteration(c, outcome) ==
    LET logged == [c EXCEPT !.log = Append(@, outcome)]
    IN  IF outcome.raised
        THEN IF c.attempt < max_retries
             THEN [logged EXCEPT
                      !.attempt = @ + 1,
                      !.waits = Append(@, [after |-> c.attempt,
                                           seconds |-> retry_delay * c.attempt])]
             ELSE [logged EXCEPT !.state = "returned",
                                 !.result = create_failed_result("exception")]
        ELSE IF outcome.value.total_issues > 0
        THEN [logged EXCEPT !.state = "returned", !.result = outcome.value]
        ELSE IF c.attempt < max_retries
        THEN [logged EXCEPT !.attempt = @ + 1]
        ELSE [logged EXCEPT !.state = "returned",
                            !.result = create_failed_result("all retries failed")]

\* what the browser does at one issue index: _navigate_slides raises (from the
\* third index on), or the extraction gives data or None and then
\* _close_popup_and_restore returns or raises
IndexOutcomes(i) ==
    { [navigated |-> TRUE, extracted |-> extracted, closed |-> closed] :
        extracted \in BOOLEAN, closed \in BOOLEAN } \cup
    (IF i >= 3 THEN {[navigated |-> FALSE, extracted |-> FALSE, closed |-> FALSE]}
     ELSE {})

\* _crawl_issues_in_category at its first statement
CategoryStart(max_issues) ==
    [fn |-> "category", state |-> "loop", i |-> 1, max_issues |-> max_issues,
     issues |-> <<>>, failed_count |-> 0, history |-> <<>>]

\* One iteration of the for loop over issue indices: the count after the
\* if/else on issue_data, one more for an exception anywhere in the try, and
\* the break when the count has reached max_failures.
CategoryIteration(c, outcome) ==
    LET after_extract ==
            IF ~outcome.navigated THEN c.failed_count
            ELSE IF outcome.extracted THEN 0
            ELSE c.failed_count + 1
        raised == ~outcome.navigated \/ ~outcome.closed
        failed_count == IF raised THEN after_extract + 1 ELSE after_extract
        stop == failed_count >= max_failures \/ c.i = c.max_issues
    IN  [c EXCEPT
            !.issues = IF outcome.navigated /\ outcome.extracted
                       THEN Append(@, c.i) ELSE @,
            !.failed_count = failed_count,
            !.history = Append(@, [extracted |-> outcome.navigated /\ outcome.extracted,
                                   raised |-> raised,
                                   before |-> c.failed_count,
                                   after |-> failed_count]),
            !.i = IF stop THEN @ ELSE @ + 1,
            !.state = IF stop THEN "returned" ELSE "loop"]

InitCrawl ==
    /\ pc = "crawl"
    /\ AnalysisIdle
    /\ pipeline = NotStarted
    /\ latest = NotStarted
    /\ crawler \in {RetryStart} \cup
                   {CategoryStart(max_issues) : max_issues \in 1..MaxIssuesPerCategory}
    /\ stock_filter = NotStarted
    /\ simulation = NotStarted
    /\ server = NotStarted
    /\ enrichment = NotStarted

otherThanCrawler ==
    <<pc, analysisVars, pipeline, latest, stock_filter, simulation, server, enrichment>>

\* for attempt in range(1, self.max_retries + 1): ...
CrawlAttempt ==
    /\ crawler.fn = "retry"
    /\ crawler.state = "attempting"
    /\ \E outcome \in AttemptOutcomes :
          crawler' = RetryIteration(crawler, outcome)
    /\ UNCHANGED otherThanCrawler

\* for i in range(1, max_issues + 1): ...
CrawlIssue ==
    /\ crawler.fn = "category"
    /\ crawler.state = "loop"
    /\ \E outcome \in IndexOutcomes(crawler.i) :
          crawler' = CategoryIteration(crawler, outcome)
    /\ UNCHANGED otherThanCrawler

NextCrawl ==
    \/ CrawlAttempt
    \/ CrawlIssue

SpecCrawl == InitCrawl /\ [][NextCrawl]_vars

\* ------------------------------------------------------------------ C24
\* the attempt at position k of the log failed: it raised or found no issue
AttemptFailed(k) ==
    \/ crawler.log[k].raised
    \/ crawler.log[k].value.total_issues = 0

\* the waits the claim allows after the attempts made so far
WaitsAfterRaises(k) ==
    k < max_retries /\ crawler.log[k].raised

RECURSIVE ExpectedWaits(_)
ExpectedWaits(k) ==
    IF k = 0 THEN <<>>
    ELSE ExpectedWaits(k - 1) \o
         (IF WaitsAfterRaises(k)
          THEN <<[after |-> k, seconds |-> retry_delay * k]>> ELSE <<>>)

\* C24: at most max_retries attempts are made, and the call never ends by
\* raising; every attempt before the last one made failed; a call that
\* returned after a successful attempt returns that attempt's result, any
\* other call has made max_retries attempts and returns total_issues 0 with
\* empty all_issues; the waits are exactly retry_delay * k after each
\* attempt k that raised and was not the last allowed one.
C24_RetryBoundedFirstSuccess ==
    crawler.fn = "retry" =>
        /\ Len(crawler.log) <= max_retries
        /\ crawler.state \in {"attempting", "returned"}
        /\ crawler.state = "attempting" => Len(crawler.log) < max_retries
        /\ \A k \in 1..(Len(crawler.log) - 1) : AttemptFailed(k)
        /\ crawler.state = "attempting" =>
              \A k \in DOMAIN crawler.log : AttemptFailed(k)
        /\ crawler.state = "returned" =>
              IF AttemptFailed(Len(crawler.log))
              THEN /\ Len(crawler.log) = max_retries
                   /\ crawler.result.total_issues = 0
                   /\ crawler.result.all_issues = <<>>
              ELSE crawler.result = crawler.log[Len(crawler.log)].value
        /\ crawler.waits = ExpectedWaits(Len(crawler.log))

\* C24 witness: the first attempt raised, the second found nothing, the third
\* raised; the call returned the failed result after one wait of 5 seconds.
C24_Witness ==
    /\ crawler.fn = "retry"
    /\ crawler.state = "returned"
    /\ Len(crawler.log) = 3
    /\ crawler.log[1].raised
    /\ ~crawler.log[2].raised
    /\ crawler.log[3].raised
    /\ crawler.waits = <<[after |-> 1, seconds |-> 5]>>
    /\ crawler.result.total_issues = 0

\* ------------------------------------------------------------------ C25
\* the loop ended before the last index
StoppedEarly ==
    crawler.state = "returned" /\ Len(crawler.history) < crawler.max_issues

\* the index at position k of the history failed
IndexFailed(k) == ~crawler.history[k].extracted \/ crawler.history[k].raised

\* C25: the loop stops early only after three consecutive failed indices; an
\* index whose issue was extracted leaves the count at 0; no index adds more
\* than 1 to the count.
C25_ThreeConsecutiveFailures ==
    crawler.fn = "category" =>
        /\ StoppedEarly =>
              /\ Len(crawler.history) >= 3
              /\ \A k \in (Len(crawler.history) - 2)..Len(crawler.history) :
                    IndexFailed(k)
        /\ \A k \in DOMAIN crawler.history :
              /\ crawler.history[k].after <= crawler.history[k].before + 1
              /\ (crawler.history[k].extracted /\ ~crawler.history[k].raised) =>
                    crawler.history[k].after = 0

\* ------------------------- SpecFilter: the stock relevance filter of a crawl
\* Init draws the crawled issues, what the relevance analysis of each leaves
\* behind, the target count and whether the LLM could be initialised.
MaxAllIssues == 3
MaxTarget == 3

\* the composite scores the analysis hands back, among them the default 5
RelevanceScores == {3, 5, 8}

\* what _analyze_stock_market_relevance can leave behind for one issue
AnalysisOutcomes == {Raised} \cup {Returned([composite |-> s]) : s \in RelevanceScores}

\* a crawled issue
CrawledIssue(k) == [issue_number |-> k, title |-> <<"title", k>>]

\* all_issues[:n]
Slice(list, n) == [i \in 1..(IF n < Len(list) THEN n ELSE Len(list)) |-> list[i]]

\* faulty variant: an issue whose analysis raised is left out
ScoreIssues_DropFailed(all_issues, analyses) ==
    LET RECURSIVE From(_)
        From(i) ==
            IF i > Len(all_issues) THEN <<>>
            ELSE (IF analyses[i].raised THEN <<>>
                  ELSE <<[relevance_score |-> analyses[i].value.composite,
                          relevance_analysis |-> analyses[i].value] @@ all_issues[i]>>)
                 \o From(i + 1)
    IN  From(1)

\* the loop over all_issues: the copy of each issue with its composite score,
\* or with score 5 when its analysis raised
ScoreIssues(all_issues, analyses) ==
    [i \in DOMAIN all_issues |->
        IF analyses[i].raised
        THEN [relevance_score |-> 5,
              relevance_analysis |-> [composite |-> 5, failed |-> TRUE]] @@ all_issues[i]
        ELSE [relevance_score |-> analyses[i].value.composite,
              relevance_analysis |-> analyses[i].value] @@ all_issues[i]]

\* the place of an entry in a list sorted by score, highest first: behind
\* every entry that scores at least as much (list.sort is stable)
RECURSIVE InsertByRelevance(_, _)
InsertByRelevance(sorted, entry) ==
    IF sorted = <<>> THEN <<entry>>
    ELSE IF Head(sorted).relevance_score >= entry.relevance_score
    THEN <<Head(sorted)>> \o InsertByRelevance(Tail(sorted), entry)
    ELSE <<entry>> \o sorted

\* scored_issues.sort(key=score, reverse=True)
SortByRelevance(scored) ==
    LET RECURSIVE Upto(_)
        Upto(n) == IF n = 0 THEN <<>> ELSE InsertByRelevance(Upto(n - 1), scored[n])
    IN  Upto(Len(scored))

\* for rank, issue in enumerate(selected_issues, 1): issue["rank"] = rank
Ranked(selected) == [i \in DOMAIN selected |-> [rank |-> i] @@ selected[i]]

\* _filter_by_stock_relevance(all_issues, target_count): the slice without an
\* LLM, else the target_count best scored issues with their ranks
filter_by_stock_relevance(llm, all_issues, analyses, target_count) ==
    IF ~llm
    THEN [selected_issues |-> Slice(all_issues, target_count),
          filtering_method |-> "no_ai_simple_slice",
          original_count |-> Len(all_issues),
          selected_count |-> IF Len(all_issues) < target_count
                             THEN Len(all_issues) ELSE target_count]
    ELSE LET selected_issues ==
                 Ranked(Slice(SortByRelevance(ScoreIssues(all_issues, analyses)),
                              target_count))
         IN  [selected_issues |-> selected_issues,
              filtering_method |-> "stock_relevance",
              original_count |-> Len(all_issues),
              selected_count |-> Len(selected_issues)]

\* Step 2 of crawl_and_filter_news: the filter when there are issues and an
\* LLM, else the slice
crawl_and_filter_news(llm, all_issues, analyses, target_count) ==
    IF all_issues # <<>> /\ llm
    THEN filter_by_stock_relevance(llm, all_issues, analyses, target_count)
    ELSE [selected_issues |-> Slice(all_issues, target_count),
          filtering_method |-> IF ~llm THEN "no_llm" ELSE "no_issues_to_filter",
          original_count |-> Len(all_issues),
          selected_count |-> IF Len(all_issues) < target_count
                             THEN Len(all_issues) ELSE target_count]

InitFilter ==
    /\ pc = "filter"
    /\ AnalysisIdle
    /\ pipeline = NotStarted
    /\ latest = NotStarted
    /\ crawler = NotStarted
    /\ \E n \in 0..MaxAllIssues, target_count \in 0..MaxTarget, llm \in BOOLEAN :
          \E analyses \in [1..n -> AnalysisOutcomes] :
              stock_filter = [state |-> "crawled", llm |-> llm,
                              all_issues |-> [k \in 1..n |-> CrawledIssue(k)],
                              analyses |-> analyses, target_count |-> target_count]
    /\ simulation = NotStarted
    /\ server = NotStarted
    /\ enrichment = NotStarted

otherThanFilter ==
    <<pc, analysisVars, pipeline, latest, crawler, simulation, server, enrichment>>

\* self._filter_by_stock_relevance(all_issues, target_count)
FilterByStockRelevance ==
    /\ stock_filter.state = "crawled"
    /\ \E result \in {filter_by_stock_relevance(stock_filter.llm, stock_filter.all_issues,
                          stock_filter.analyses, stock_filter.target_count)} :
          stock_filter' = [state |-> "filtered", llm |-> stock_filter.llm,
                           all_issues |-> stock_filter.all_issues,
                           analyses |-> stock_filter.analyses,
                           target_count |-> stock_filter.target_count,
                           result |-> result]
    /\ UNCHANGED otherThanFilter

\* service.crawl_and_filter_news(issues_per_category, target_filtered_count)
CrawlAndFilterNews ==
    /\ stock_filter.state = "crawled"
    /\ \E result \in {crawl_and_filter_news(stock_filter.llm, stock_filter.all_issues,
                          stock_filter.analyses, stock_filter.target_count)} :
          stock_filter' = [state |-> "crawled_and_filtered", llm |-> stock_filter.llm,
                           all_issues |-> stock_filter.all_issues,
                           analyses |-> stock_filter.analyses,
                           target_count |-> stock_filter.target_count,
                           result |-> result]
    /\ UNCHANGED otherThanFilter

NextFilter ==
    \/ FilterByStockRelevance
    \/ CrawlAndFilterNews

SpecFilter == InitFilter /\ [][NextFilter]_vars

\* ------------------------------------------------------------------ C26
\* the score the claim gives the issue at position k of the crawl
OwnScore(k) ==
    IF stock_filter.analyses[k].raised THEN 5
    ELSE stock_filter.analyses[k].value.composite

Min(a, b) == IF a < b THEN a ELSE b

MaxStocks == 2

KnownScenario == "PN_006"
MinAmount == 10000
MaxAmount == 100000000
MinPeriod == 1
MaxPeriod == 24

ScenarioIds == {KnownScenario, "PN_000"}
Amounts == {MinAmount - 1, MinAmount, MaxAmount, MaxAmount + 1}
Periods == {MinPeriod - 1, MinPeriod, MaxPeriod, MaxPeriod + 1}
Allocations == {500, 999, 1000}

\* the selected stocks of a request: all of one Python type
StockLists(type) ==
    SeqsUpTo({[type |-> type, allocation |-> a] : a \in Allocations}, MaxStocks)

\* the requests: any values with dict stocks, and what SimulationRequest lets
\* through (investment_amount > 0, 1 <= investment_period <= 24) with
\* StockSelection stocks
Requests ==
    { [scenario_id |-> id, investment_amount |-> amount,
       investment_period |-> period, selected_stocks |-> stocks] :
        id \in ScenarioIds, amount \in Amounts, period \in Periods,
        stocks \in StockLists("dict") } \cup
    { [scenario_id |-> id, investment_amount |-> amount,
       investment_period |-> period, selected_stocks |-> stocks] :
        id \in ScenarioIds, amount \in Amounts,
        period \in {MinPeriod, MaxPeriod},
        stocks \in StockLists("StockSelection") }

RECURSIVE SumAllocation(_)
SumAllocation(stocks) ==
    IF stocks = <<>> THEN 0
    ELSE Head(stocks).allocation + SumAllocation(Tail(stocks))

\* the four checks, each appending its error
ValidationErrors(request) ==
    (IF request.scenario_id # KnownScenario THEN <<"scenario">> ELSE <<>>)
    \o (IF ~(MinAmount <= request.investment_amount
             /\ request.investment_amount <= MaxAmount)
        THEN <<"amount">> ELSE <<>>)
    \o (IF ~(MinPeriod <= request.investment_period
             /\ request.investment_period <= MaxPeriod)
        THEN <<"period">> ELSE <<>>)
    \o (IF request.selected_stocks = <<>> THEN <<"stocks">> ELSE <<>>)

\* validate_simulation_inputs: s['allocation'] raises TypeError on a stock
\* that is not subscriptable; else the verdict with its errors and warnings
validate_simulation_inputs(request) ==
    IF \E i \in DOMAIN request.selected_stocks :
           request.selected_stocks[i].type # "dict"
    THEN Raised
    ELSE LET errors == ValidationErrors(request)
             total_alloc == SumAllocation(request.selected_stocks)
             off == IF total_alloc >= 1000 THEN total_alloc - 1000
                    ELSE 1000 - total_alloc
         IN  Returned([valid |-> errors = <<>>, errors |-> errors,
                       warnings |-> IF off > 1 THEN <<"allocation">> ELSE <<>>])

\* what engine.run_simulation can leave behind
RunOutcomes == {Raised, Returned([final_amount |-> 1])}

InitSimulation ==
    /\ pc = "simulation"
    /\ AnalysisIdle
    /\ pipeline = NotStarted
    /\ latest = NotStarted
    /\ crawler = NotStarted
    /\ stock_filter = NotStarted
    /\ \E request \in Requests :
          simulation = [state |-> "requested", request |-> request]
    /\ server = NotStarted
    /\ enrichment = NotStarted

otherThanSimulation ==
    <<pc, analysisVars, pipeline, latest, crawler, stock_filter, server, enrichment>>

\* engine.validate_simulation_inputs(...) called with the request's values
ValidateSimulationInputs ==
    /\ simulation.state = "requested"
    /\ simulation' = [state |-> "validated", request |-> simulation.request,
                      validation |-> validate_simulation_inputs(simulation.request)]
    /\ UNCHANGED otherThanSimulation

\* POST /run-simulation: 400 for an invalid request, else the simulation runs
\* (500 when it raises); an exception of the validation leaves the handler
RunSimulation ==
    /\ simulation.state = "requested"
    /\ \A i \in DOMAIN simulation.request.selected_stocks :
          simulation.request.selected_stocks[i].type = "StockSelection"
    /\ \E validation \in {validate_simulation_inputs(simulation.request)},
          outcome \in RunOutcomes :
          simulation' =
              [state |-> "answered", request |-> simulation.request,
               validation |-> validation,
               status |-> IF validation.raised THEN 500
                          ELSE IF ~validation.value.valid THEN 400
                          ELSE IF outcome.raised THEN 500
                          ELSE 200]
    /\ UNCHANGED otherThanSimulation

NextSimulation ==
    \/ ValidateSimulationInputs
    \/ RunSimulation

SpecSimulation == InitSimulation /\ [][NextSimulation]_vars

\* ------------------------------------------------------------------ C27
\* the conditions the claim names for a valid request
InputsInRange(request) ==
    /\ request.scenario_id = KnownScenario
    /\ 10000 <= request.investment_amount
    /\ request.investment_amount <= 100000000
    /\ 1 <= request.investment_period
    /\ request.investment_period <= 24
    /\ Len(request.selected_stocks) >= 1

\* C27: the validation of a request returns; valid is true exactly when the
\* scenario is known, the amount and the period are in range and a stock is
\* selected; valid is true iff errors is empty, whatever the warnings.
C27_ValidIffInputsInRange ==
    simulation.state \in {"validated", "answered"} =>
        /\ ~simulation.validation.raised
        /\ simulation.validation.value.valid <=> InputsInRange(simulation.request)
        /\ simulation.validation.value.valid <=>
              (simulation.validation.value.errors = <<>>)

\* ------------------------- SpecServer: the background thread and the trigger
\* The background thread of main.py, the threads the manual trigger starts and
\* the handler of POST /api/pipeline/trigger, interleaved step by step.  The
\* executor's run_once sets is_running on entry and clears it on exit, by
\* return or by exception; main.py adds no lock of its own.
MaxScheduled == 2
MaxTriggers == 2

\* run_once, first statement: self.is_running = True
RunOnceEnter(s) == [s EXCEPT !.is_running = TRUE]

\* run_once, on the way out: self.is_running = False
RunOnceExit(s) == [s EXCEPT !.is_running = FALSE]

\* how a run of the executor can end
RunEndings == {"returned", "raised"}

\* the runs of the executor that are between entry and exit
RunsInProgress(s) ==
    (IF s.background \in {"initial_run", "scheduled_run"} THEN 1 ELSE 0)
    + s.manual_runs

\* the module as loaded: pipeline_executor = None, pipeline_thread = None
ServerLoaded ==
    [ background    |-> "no_thread",
      executor      |-> FALSE,
      is_running    |-> FALSE,
      scheduled     |-> 0,
      failed        |-> {},
      pending       |-> 0,
      manual_runs   |-> 0,
      triggers      |-> 0,
      trigger       |-> [handled |-> FALSE, in_progress |-> FALSE, success |-> FALSE] ]

InitServer ==
    /\ pc = "server"
    /\ AnalysisIdle
    /\ pipeline = NotStarted
    /\ latest = NotStarted
    /\ crawler = NotStarted
    /\ stock_filter = NotStarted
    /\ simulation = NotStarted
    /\ server = ServerLoaded
    /\ enrichment = NotStarted

otherThanServer ==
    <<pc, analysisVars, pipeline, latest, crawler, stock_filter, simulation, enrichment>>

\* lifespan, startup: pipeline_thread.start()
Lifespan ==
    /\ server.background = "no_thread"
    /\ server' = [server EXCEPT !.background = "started"]
    /\ UNCHANGED otherThanServer

\* run_background_pipeline: pipeline_executor = BackgroundPipelineExecutor();
\* an exception of the constructor ends the thread
CreateExecutor ==
    /\ server.background = "started"
    /\ \E created \in BOOLEAN :
          server' = IF created
                    THEN [server EXCEPT !.executor = TRUE, !.background = "initial_call"]
                    ELSE [server EXCEPT !.background = "ended"]
    /\ UNCHANGED otherThanServer

\* pipeline_executor.run_once() at server start, entered
InitialRunEnter ==
    /\ server.background = "initial_call"
    /\ server' = RunOnceEnter([server EXCEPT !.background = "initial_run"])
    /\ UNCHANGED otherThanServer

\* the initial run is over: on return the thread goes to sleep, an exception
\* reaches the outer handler and the thread function returns
InitialRunExit ==
    /\ server.background = "initial_run"
    /\ \E ending \in RunEndings :
          server' = RunOnceExit(
              IF ending = "returned"
              THEN [server EXCEPT !.background = "sleeping"]
              ELSE [server EXCEPT !.background = "ended",
                                  !.failed = @ \cup {"initial"}])
    /\ UNCHANGED otherThanServer

\* time.sleep(1800) is over and pipeline_executor.run_once() is entered
ScheduledRunEnter ==
    /\ server.background = "sleeping"
    /\ server.scheduled < MaxScheduled
    /\ server' = RunOnceEnter([server EXCEPT !.background = "scheduled_run",
                                             !.scheduled = @ + 1])
    /\ UNCHANGED otherThanServer

\* a scheduled run is over: its exception is caught in the loop, which goes on
ScheduledRunExit ==
    /\ server.background = "scheduled_run"
    /\ \E ending \in RunEndings :
          server' = RunOnceExit(
              IF ending = "returned"
              THEN [server EXCEPT !.background = "sleeping"]
              ELSE [server EXCEPT !.background = "sleeping",
                                  !.failed = @ \cup {"scheduled"}])
    /\ UNCHANGED otherThanServer

\* POST /api/pipeline/trigger: refused without an executor or while
\* is_running, else a thread that will call run_once is started
TriggerPipelineManually ==
    /\ server.background # "no_thread"
    /\ server.triggers < MaxTriggers
    /\ \E accepted \in {server.executor /\ ~server.is_running} :
          server' = [server EXCEPT
                        !.triggers = @ + 1,
                        !.pending = IF accepted THEN @ + 1 ELSE @,
                        !.trigger = [handled |-> TRUE,
                                     in_progress |-> RunsInProgress(server) > 0,
                                     success |-> accepted]]
    /\ UNCHANGED otherThanServer

\* a thread of the trigger enters pipeline_executor.run_once()
ManualRunEnter ==
    /\ server.pending > 0
    /\ server' = RunOnceEnter([server EXCEPT !.pending = @ - 1,
                                             !.manual_runs = @ + 1])
    /\ UNCHANGED otherThanServer

\* a manual run is over, by return or by exception; its thread ends
ManualRunExit ==
    /\ server.manual_runs > 0
    /\ \E ending \in RunEndings :
          server' = RunOnceExit([server EXCEPT !.manual_runs = @ - 1])
    /\ UNCHANGED otherThanServer

NextServer ==
    \/ Lifespan
    \/ CreateExecutor
    \/ InitialRunEnter
    \/ InitialRunExit
    \/ ScheduledRunEnter
    \/ ScheduledRunExit
    \/ TriggerPipelineManually
    \/ ManualRunEnter
    \/ ManualRunExit

SpecServer == InitServer /\ [][NextServer]_vars

\* ------------------------------------------------------------------ C28
\* C28: at most one run of the executor is in progress at any time, and the
\* last trigger handled while a run was in progress was refused.
C28_AtMostOneRun ==
    /\ RunsInProgress(server) <= 1
    /\ (server.trigger.handled /\ server.trigger.in_progress) => ~server.trigger.success

\* ------------------------------------------------------------------ C29
\* C29: a run of the background thread that raised, the initial one or a
\* scheduled one, leaves the thread in its loop: it sleeps, or is in a later
\* run.
C29_FailedRunKeepsSchedule ==
    server.failed # {} => server.background \in {"sleeping", "scheduled_run"}

====
